---------------------------- MODULE Spec2Model ----------------------------
(***************************************************************************)
(* Model of the training-session booking system: the entity store          *)
(* (utils/session_utils.py, utils/appointment_utils.py), the availability  *)
(* engine (get_available_slots), the booking dialogue and the extractors   *)
(* of session_agent.py and appointment_agent.py, the reminder sweeps and   *)
(* bulk call loops (outbound_session_calls.py,                             *)
(* outbound_appointment_calls.py, appointment_scheduler.py) and the        *)
(* health check of main.py.                                                *)
(*                                                                         *)
(* Instants are minutes counted from 00:00 of day 0 (naive datetimes).     *)
(* A document id is the position of the record in its collection.         *)
(***************************************************************************)
EXTENDS Integers, Sequences, FiniteSets, TLC

VARIABLES
    sessions,              \* Firestore collection 'sessions'
    appointments,          \* Firestore collection 'appointments'
    clients,               \* Firestore collection 'clients'
    avail,                 \* the last get_available_slots call made since the last write
                           \* to the store, and what it returned
    conversation_context,  \* SessionSchedulingAgent.conversation_context
    pc,                    \* per conversation: position inside handle_schedule_request
    local,                 \* per conversation: client_id and remaining_sessions of the running handler
    reply,                 \* the kind of the last reply the agent returned
    sweep,                 \* per reminder sweep: position inside process_reminder_queue,
                           \* the list it fetched and its statistics
    calls,                 \* the ids of the records for which a reminder call has
                           \* been placed, and of those whose dispatch has failed
    extraction,            \* the last direct call of an extractor: its text, the agent
                           \* and what it returned
    service,               \* what main.py has loaded, and whether the persistence
                           \* collaborator can be reached
    health                 \* the last answer of the health-check endpoint

storeVars  == <<sessions, appointments, clients>>
dialogVars == <<conversation_context, pc, local, reply, extraction>>
sweepVars  == <<sweep, calls>>
healthVars == <<service, health>>
vars == <<sessions, appointments, clients, avail, conversation_context, pc, local, reply,
          sweep, calls, extraction, service, health>>

-----------------------------------------------------------------------------
(* Program constants *)

MinutesPerHour == 60
MinutesPerDay == 1440
\* business_start, business_end: session_utils.py 192-193, appointment_utils.py 156-157
business_start == 9
business_end == 18
\* "current_time += timedelta(minutes=30)"
SlotStep == 30
\* default of duration / duration_minutes, and the duration the dialogue books
DefaultDuration == 60

\* the trainer the session dialogue books for (session_agent.py 219, 235)
DEFAULT_TRAINER == "8QYQXt91Kzf4j4w0i2kogb4zEyN2"
OTHER_TRAINER == "trainer2"

\* the statuses the data model calls active
ActiveStatuses == {"scheduled", "confirmed"}

-----------------------------------------------------------------------------
(* Bounds of the model *)

\* records in a booking collection.  The two managers work on disjoint
\* collections and no operation reads both, so a behaviour fills one of them.
MaxRecords == 2

Trainers == {DEFAULT_TRAINER, OTHER_TRAINER}
\* instants at which the store operations book or to which they reschedule
Instants == {MinutesPerDay + 9 * MinutesPerHour,
             MinutesPerDay + 9 * MinutesPerHour + 30,
             2 * MinutesPerDay + 9 * MinutesPerHour + 30}
\* the date argument of an availability query: any instant of the day
QueryDates == {MinutesPerDay + 8 * MinutesPerHour, 2 * MinutesPerDay}
\* the arguments of the availability calls the model makes
QueryArgs == { <<DEFAULT_TRAINER, MinutesPerDay + 8 * MinutesPerHour, DefaultDuration>>,
               <<OTHER_TRAINER, 2 * MinutesPerDay, 30>> }
\* statuses given to update_session_status / update_appointment_status
StatusInputs == {"confirmed"}

\* the conversations (calls) that talk to the agent
ConvIds == {"call1", "call2"}

None == "None"
NoQuery == [variant |-> "none"]
NoLocal == [client_id |-> 0, remaining_sessions |-> 0]
NoReply == "none"

\* the reminder sweeps that can run at a time (two triggers of the endpoint)
Sweepers == {"sweep1", "sweep2"}
NoSweep == [pc |-> "idle", variant |-> "none", queue |-> << >>, i |-> 0,
            success |-> FALSE, results |-> {}, total |-> 0,
            successful |-> 0, failed |-> 0, delays |-> 0]
NoCalls == [placed |-> {}, failed |-> {}]
NoExtraction == [agent |-> "none"]
\* the session system is loaded, the store is reachable and holds the trainer
ServiceUp == [session_system |-> TRUE, use_session_agent |-> TRUE,
              reachable |-> TRUE, trainer_exists |-> TRUE]
NoHealth == [status |-> "none"]

-----------------------------------------------------------------------------
(* Availability engine *)

\* "current_time < busy_end and slot_end > busy_start"
Conflicts(current_time, slot_end, busy_start, busy_end) ==
    current_time < busy_end /\ slot_end > busy_start

\* date.replace(hour=0, minute=0, second=0, microsecond=0)
start_of_day(date) == (date \div MinutesPerDay) * MinutesPerDay

\* the status filter of the sessions query
SessionBusyStatuses == {"scheduled"}
\* the status filter of the appointments query
AppointmentBusyStatuses == {"scheduled", "confirmed"}

\* busy_slots of SessionManager.get_available_slots: the (start, end) pairs of
\* the trainer's sessions of that day that pass the status filter
session_busy_slots(trainer_id, date) ==
    { <<sessions[i].dateTime, sessions[i].dateTime + sessions[i].duration>> :
        i \in { j \in 1..Len(sessions) :
                  /\ sessions[j].trainerId = trainer_id
                  /\ sessions[j].dateTime >= start_of_day(date)
                  /\ sessions[j].dateTime < start_of_day(date) + MinutesPerDay
                  /\ sessions[j].status \in SessionBusyStatuses } }

\* busy_slots of AppointmentManager.get_available_slots
appointment_busy_slots(trainer_id, date) ==
    { <<appointments[i].appointment_time,
        appointments[i].appointment_time + appointments[i].duration_minutes>> :
        i \in { j \in 1..Len(appointments) :
                  /\ appointments[j].trainer_id = trainer_id
                  /\ appointments[j].appointment_time >= start_of_day(date)
                  /\ appointments[j].appointment_time < start_of_day(date) + MinutesPerDay
                  /\ appointments[j].status \in AppointmentBusyStatuses } }

\* generate_slots with a loop that tests the start of the slot, not its end,
\* against business close
RECURSIVE generate_slots_start_tested(_, _, _, _)
generate_slots_start_tested(current_time, end_time, duration_minutes, busy_slots) ==
    IF current_time < end_time
    THEN LET slot_end == current_time + duration_minutes
             is_available == \A b \in busy_slots :
                                ~(current_time < b[2] /\ slot_end > b[1])
             rest == generate_slots_start_tested(current_time + SlotStep, end_time,
                                                 duration_minutes, busy_slots)
         IN  IF is_available THEN <<current_time>> \o rest ELSE rest
    ELSE << >>

\* the while loop that generates the slots, from current_time on
RECURSIVE generate_slots(_, _, _, _)
generate_slots(current_time, end_time, duration_minutes, busy_slots) ==
    IF current_time + duration_minutes <= end_time
    THEN LET slot_end == current_time + duration_minutes
             is_available == \A b \in busy_slots :
                                ~Conflicts(current_time, slot_end, b[1], b[2])
             rest == generate_slots(current_time + SlotStep, end_time,
                                    duration_minutes, busy_slots)
         IN  IF is_available THEN <<current_time>> \o rest ELSE rest
    ELSE << >>

\* SessionManager.get_available_slots
get_available_slots(trainer_id, date, duration_minutes) ==
    generate_slots(start_of_day(date) + business_start * MinutesPerHour,
                   start_of_day(date) + business_end * MinutesPerHour,
                   duration_minutes,
                   session_busy_slots(trainer_id, date))

\* AppointmentManager.get_available_slots
appointment_get_available_slots(trainer_id, date, duration_minutes) ==
    generate_slots(start_of_day(date) + business_start * MinutesPerHour,
                   start_of_day(date) + business_end * MinutesPerHour,
                   duration_minutes,
                   appointment_busy_slots(trainer_id, date))

-----------------------------------------------------------------------------
(* Entity store: sessions (utils/session_utils.py) *)

\* SessionManager.create_session: no check of the existing sessions precedes the add
create_session(client_id, trainer_id, session_time, duration) ==
    sessions' = Append(sessions,
                          [clientId |-> client_id,
                           trainerId |-> trainer_id,
                           dateTime |-> session_time,
                           duration |-> duration,
                           status |-> "scheduled",
                           autoReminderSent |-> FALSE])

\* SessionManager.update_session_status
update_session_status(session_id, status) ==
    /\ session_id \in 1..Len(sessions)
    /\ sessions' = [sessions EXCEPT ![session_id].status = status]

\* cancel_session writing a status no query knows
cancel_session_misspelled(session_id) ==
    /\ session_id \in 1..Len(sessions)
    /\ sessions' = [sessions EXCEPT ![session_id].status = "canceled"]

\* SessionManager.cancel_session
cancel_session(session_id) ==
    /\ session_id \in 1..Len(sessions)
    /\ sessions' = [sessions EXCEPT ![session_id].status = "cancelled"]

\* reschedule_session that asks for a new reminder for the new time
reschedule_session_resetting(session_id, new_time) ==
    /\ session_id \in 1..Len(sessions)
    /\ sessions' = [sessions EXCEPT ![session_id].dateTime = new_time,
                                    ![session_id].status = "scheduled",
                                    ![session_id].autoReminderSent = FALSE]

\* SessionManager.reschedule_session: a plain update of dateTime and status
reschedule_session(session_id, new_time) ==
    /\ session_id \in 1..Len(sessions)
    /\ sessions' = [sessions EXCEPT ![session_id].dateTime = new_time,
                                    ![session_id].status = "scheduled"]

-----------------------------------------------------------------------------
(* Entity store: appointments (utils/appointment_utils.py) *)

\* AppointmentManager.create_appointment
create_appointment(client_id, trainer_id, appointment_time, duration_minutes) ==
    appointments' = Append(appointments,
                              [client_id |-> client_id,
                               trainer_id |-> trainer_id,
                               appointment_time |-> appointment_time,
                               duration_minutes |-> duration_minutes,
                               status |-> "scheduled",
                               reminder_sent |-> FALSE])

\* AppointmentManager.update_appointment_status
update_appointment_status(appointment_id, status) ==
    /\ appointment_id \in 1..Len(appointments)
    /\ appointments' = [appointments EXCEPT ![appointment_id].status = status]

\* AppointmentManager.cancel_appointment
cancel_appointment(appointment_id) ==
    /\ appointment_id \in 1..Len(appointments)
    /\ appointments' = [appointments EXCEPT ![appointment_id].status = "cancelled"]

\* AppointmentManager.reschedule_appointment
reschedule_appointment(appointment_id, new_time) ==
    /\ appointment_id \in 1..Len(appointments)
    /\ appointments' = [appointments EXCEPT ![appointment_id].appointment_time = new_time,
                                            ![appointment_id].status = "rescheduled"]

-----------------------------------------------------------------------------
(* The store operations as steps of the system *)

\* the client every direct store booking is made for
StoreClient == 1

BookSession ==
    /\ Len(sessions) < MaxRecords
    /\ appointments = << >>
    /\ \E t \in Trainers, at \in Instants :
          create_session(StoreClient, t, at, DefaultDuration)
    /\ UNCHANGED <<appointments, clients, dialogVars, healthVars, sweepVars>>
    /\ avail' = NoQuery

SetSessionStatus ==
    /\ \E id \in 1..Len(sessions), st \in StatusInputs : update_session_status(id, st)
    /\ UNCHANGED <<appointments, clients, dialogVars, healthVars, sweepVars>>
    /\ avail' = NoQuery

CancelSession ==
    /\ \E id \in 1..Len(sessions) : cancel_session(id)
    /\ UNCHANGED <<appointments, clients, dialogVars, healthVars, sweepVars>>
    /\ avail' = NoQuery

RescheduleSession ==
    /\ \E id \in 1..Len(sessions), at \in Instants : reschedule_session(id, at)
    /\ UNCHANGED <<appointments, clients, dialogVars, healthVars, sweepVars>>
    /\ avail' = NoQuery

\* a call of get_available_slots that holds the first slot it returns by
\* writing a session for it
QuerySessionSlots_holding ==
    /\ appointments = << >>
    /\ \E q \in QueryArgs :
          LET slots == get_available_slots(q[1], q[2], q[3]) IN
          /\ avail' = [variant |-> "session", trainer_id |-> q[1], date |-> q[2],
                       duration_minutes |-> q[3], slots |-> slots]
          /\ IF slots # << >> /\ Len(sessions) < MaxRecords
             THEN create_session(StoreClient, q[1], slots[1], q[3])
             ELSE UNCHANGED sessions
    /\ UNCHANGED <<appointments, clients, dialogVars, healthVars, sweepVars>>

\* a call of SessionManager.get_available_slots: reads only
QuerySessionSlots ==
    /\ appointments = << >>
    /\ \E q \in QueryArgs :
          avail' = [variant |-> "session", trainer_id |-> q[1], date |-> q[2],
                    duration_minutes |-> q[3],
                    slots |-> get_available_slots(q[1], q[2], q[3])]
    /\ UNCHANGED <<storeVars, dialogVars, healthVars, sweepVars>>

BookAppointment ==
    /\ Len(appointments) < MaxRecords
    /\ sessions = << >>
    /\ \E t \in Trainers, at \in Instants :
          create_appointment(StoreClient, t, at, DefaultDuration)
    /\ UNCHANGED <<sessions, clients, dialogVars, healthVars, sweepVars>>
    /\ avail' = NoQuery

SetAppointmentStatus ==
    /\ \E id \in 1..Len(appointments), st \in StatusInputs :
          update_appointment_status(id, st)
    /\ UNCHANGED <<sessions, clients, dialogVars, healthVars, sweepVars>>
    /\ avail' = NoQuery

CancelAppointment ==
    /\ \E id \in 1..Len(appointments) : cancel_appointment(id)
    /\ UNCHANGED <<sessions, clients, dialogVars, healthVars, sweepVars>>
    /\ avail' = NoQuery

RescheduleAppointment ==
    /\ \E id \in 1..Len(appointments), at \in Instants : reschedule_appointment(id, at)
    /\ UNCHANGED <<sessions, clients, dialogVars, healthVars, sweepVars>>
    /\ avail' = NoQuery

\* a call of AppointmentManager.get_available_slots: reads only
QueryAppointmentSlots ==
    /\ sessions = << >>
    /\ \E q \in QueryArgs :
          avail' = [variant |-> "appointment", trainer_id |-> q[1], date |-> q[2],
                    duration_minutes |-> q[3],
                    slots |-> appointment_get_available_slots(q[1], q[2], q[3])]
    /\ UNCHANGED <<storeVars, dialogVars, healthVars, sweepVars>>

-----------------------------------------------------------------------------
(* Specification of the store and the availability engine *)

StoreInit ==
    /\ sessions = << >>
    /\ appointments = << >>
    /\ clients = << >>
    /\ avail = NoQuery
    /\ conversation_context = << >>
    /\ pc = [c \in ConvIds |-> "idle"]
    /\ local = [c \in ConvIds |-> NoLocal]
    /\ reply = NoReply
    /\ sweep = [s \in Sweepers |-> NoSweep]
    /\ calls = NoCalls
    /\ extraction = NoExtraction
    /\ service = ServiceUp
    /\ health = NoHealth

StoreNext ==
    \/ BookSession
    \/ SetSessionStatus
    \/ CancelSession
    \/ RescheduleSession
    \/ QuerySessionSlots
    \/ BookAppointment
    \/ SetAppointmentStatus
    \/ CancelAppointment
    \/ RescheduleAppointment
    \/ QueryAppointmentSlots

SpecStore == StoreInit /\ [][StoreNext]_vars

-----------------------------------------------------------------------------
(* Booking dialogue (session_agent.py) *)

\* the instant datetime.now() returns: 08:00 of day 0
now == 8 * MinutesPerHour

\* the outcome of a resolution that raises; no instant is negative
ParseError == 0 - 1

\* date of a draft: date_str 'today' / 'tomorrow', else dateutil's parser.parse,
\* which raises on a fragment it cannot read ('next week').  The result is the
\* first instant of the date.
resolve_date(date_str) ==
    CASE date_str = "today"      -> start_of_day(now)
      [] date_str = "tomorrow"   -> start_of_day(now + MinutesPerDay)
      [] date_str = "12/15/2023" -> start_of_day(now) + 3 * MinutesPerDay
      [] OTHER                   -> ParseError

\* parser.parse(time_str).time() as minutes after midnight; the day-part words
\* the extractor accepts ('morning', 'afternoon', 'evening') do not parse
resolve_time(time_str) ==
    CASE time_str = "9 am"    -> 9 * MinutesPerHour
      [] time_str = "9:30 am" -> 9 * MinutesPerHour + 30
      [] time_str = "2pm"     -> 14 * MinutesPerHour
      [] time_str = "8 pm"    -> 20 * MinutesPerHour
      [] OTHER                -> ParseError

\* datetime.combine(session_date, session_time)
session_datetime(context) ==
    IF resolve_date(context["date"]) = ParseError \/ resolve_time(context["time"]) = ParseError
    THEN ParseError
    ELSE resolve_date(context["date"]) + resolve_time(context["time"])

required_fields == <<"name", "phone", "date", "time">>

\* the draft of a conversation; a conversation without entry has the empty draft
context_of(conversation_id) ==
    IF conversation_id \in DOMAIN conversation_context
    THEN conversation_context[conversation_id]
    ELSE << >>

\* the fields an utterance's extracted_info gives to the draft
extracted_fields(extracted_info) ==
    {f \in {"name", "phone"} : extracted_info[f] # None}
        \cup (IF extracted_info.dates # << >> THEN {"date"} ELSE {})
        \cup (IF extracted_info.times # << >> THEN {"time"} ELSE {})

extracted_value(extracted_info, f) ==
    CASE f = "name"  -> extracted_info.name
      [] f = "phone" -> extracted_info.phone
      [] f = "date"  -> extracted_info.dates[1]
      [] f = "time"  -> extracted_info.times[1]

\* the merge that fills only the fields the draft lacks
merge_context_fill_absent(context, extracted_info) ==
    [f \in (DOMAIN context) \cup extracted_fields(extracted_info) |->
        IF f \in DOMAIN context
        THEN context[f]
        ELSE extracted_value(extracted_info, f)]

\* "Update context with extracted information": every field the utterance
\* carries is assigned, the others are kept
merge_context(context, extracted_info) ==
    [f \in (DOMAIN context) \cup extracted_fields(extracted_info) |->
        IF f \in extracted_fields(extracted_info)
        THEN extracted_value(extracted_info, f)
        ELSE context[f]]

missing_fields(context) ==
    SelectSeq(required_fields, LAMBDA f : f \notin DOMAIN context)

\* the prompt for the last missing field
missing_prompt_last(context) ==
    "ask_" \o missing_fields(context)[Len(missing_fields(context))]

\* the prompt for the first missing field
missing_prompt(context) == "ask_" \o Head(missing_fields(context))

\* SessionManager.get_client_by_phone: the ids of the clients with that phone
\* (the query is limited to one document; which one the store does not say)
get_client_by_phone(phone) ==
    {i \in 1..Len(clients) : clients[i].phone = phone}

\* SessionManager.get_client_sessions_remaining
get_client_sessions_remaining(client_id) ==
    IF client_id \in 1..Len(clients) THEN clients[client_id].sessionsRemaining ELSE 0

\* create_client opening the record with a session to spend
create_client_with_session(name, phone) ==
    clients' = Append(clients, [name |-> name, phone |-> phone, sessionsRemaining |-> 1])

\* SessionManager.create_client: a new client starts with sessionsRemaining 0
create_client(name, phone) ==
    clients' = Append(clients, [name |-> name, phone |-> phone, sessionsRemaining |-> 0])

\* SessionManager.update_client_sessions_remaining
update_client_sessions_remaining(client_id, sessions_remaining) ==
    clients' = [clients EXCEPT ![client_id].sessionsRemaining = sessions_remaining]

SetReply(c, r) == reply' = r
\* the handler returns: its local variables are gone
Return(c) == /\ pc' = [pc EXCEPT ![c] = "idle"]
             /\ local' = [local EXCEPT ![c] = NoLocal]
Goto(c, p) == pc' = [pc EXCEPT ![c] = p]
\* the assignment of a draft that is not kept apart by conversation id
SetContext_shared(c, context) ==
    conversation_context' =
        [k \in (DOMAIN conversation_context) \cup {c} |-> context]

SetContext(c, context) ==
    conversation_context' =
        [k \in (DOMAIN conversation_context) \cup {c} |->
            IF k = c THEN context ELSE conversation_context[k]]

\* handle_schedule_request giving the draft up when date or time do not resolve
handle_schedule_request_dropping(c, extracted_info) ==
    LET context == merge_context(context_of(c), extracted_info) IN
    /\ UNCHANGED <<storeVars, avail>>
    /\ IF missing_fields(context) # << >>
       THEN /\ SetContext(c, context)
            /\ SetReply(c, missing_prompt(context))
            /\ UNCHANGED <<pc, local>>
       ELSE IF session_datetime(context) = ParseError
       THEN /\ SetContext(c, << >>)
            /\ SetReply(c, "alternate_format")
            /\ UNCHANGED <<pc, local>>
       ELSE /\ SetContext(c, context)
            /\ UNCHANGED reply
            /\ IF get_client_by_phone(context["phone"]) = {}
               THEN /\ Goto(c, "create_client")
                    /\ UNCHANGED local
               ELSE \E id \in get_client_by_phone(context["phone"]) :
                       /\ local' = [local EXCEPT ![c].client_id = id]
                       /\ Goto(c, "check_remaining")

\* handle_schedule_request up to its first access to the store: the merge, the
\* prompt for a missing field, the resolution of date and time, and the lookup
\* of the client by phone
handle_schedule_request(c, extracted_info) ==
    LET context == merge_context(context_of(c), extracted_info) IN
    /\ SetContext(c, context)
    /\ UNCHANGED <<storeVars, avail>>
    /\ IF missing_fields(context) # << >>
       THEN /\ SetReply(c, missing_prompt(context))
            /\ UNCHANGED <<pc, local>>
       ELSE IF session_datetime(context) = ParseError
       THEN /\ SetReply(c, "alternate_format")
            /\ UNCHANGED <<pc, local>>
       ELSE /\ UNCHANGED reply
            /\ IF get_client_by_phone(context["phone"]) = {}
               THEN /\ Goto(c, "create_client")
                    /\ UNCHANGED local
               ELSE \E id \in get_client_by_phone(context["phone"]) :
                       /\ local' = [local EXCEPT ![c].client_id = id]
                       /\ Goto(c, "check_remaining")

\* "Create new client": a failed create ends the turn
handle_schedule_create_client(c) ==
    /\ pc[c] = "create_client"
    /\ UNCHANGED <<sessions, appointments, avail, conversation_context>>
    /\ \/ /\ create_client(conversation_context[c]["name"], conversation_context[c]["phone"])
          /\ local' = [local EXCEPT ![c].client_id = Len(clients) + 1]
          /\ Goto(c, "check_remaining")
          /\ UNCHANGED reply
       \/ /\ SetReply(c, "client_error")
          /\ Return(c)
          /\ UNCHANGED clients

\* the check of the balance with "< 0" in place of "<= 0"
handle_schedule_check_remaining_below_zero(c) ==
    /\ pc[c] = "check_remaining"
    /\ UNCHANGED <<storeVars, avail, conversation_context>>
    /\ LET remaining_sessions == get_client_sessions_remaining(local[c].client_id) IN
       IF remaining_sessions < 0
       THEN /\ SetReply(c, "no_sessions_remaining")
            /\ Return(c)
       ELSE /\ local' = [local EXCEPT ![c].remaining_sessions = remaining_sessions]
            /\ Goto(c, "create_session")
            /\ UNCHANGED reply

\* the check of the balance that gives the draft up when the package is used up
handle_schedule_check_remaining_clearing(c) ==
    /\ pc[c] = "check_remaining"
    /\ UNCHANGED <<storeVars, avail>>
    /\ LET remaining_sessions == get_client_sessions_remaining(local[c].client_id) IN
       IF remaining_sessions <= 0
       THEN /\ SetReply(c, "no_sessions_remaining")
            /\ SetContext(c, << >>)
            /\ Return(c)
       ELSE /\ local' = [local EXCEPT ![c].remaining_sessions = remaining_sessions]
            /\ Goto(c, "create_session")
            /\ UNCHANGED <<reply, conversation_context>>

\* "Check remaining sessions"
handle_schedule_check_remaining(c) ==
    /\ pc[c] = "check_remaining"
    /\ UNCHANGED <<storeVars, avail, conversation_context>>
    /\ LET remaining_sessions == get_client_sessions_remaining(local[c].client_id) IN
       IF remaining_sessions <= 0
       THEN /\ SetReply(c, "no_sessions_remaining")
            /\ Return(c)
       ELSE /\ local' = [local EXCEPT ![c].remaining_sessions = remaining_sessions]
            /\ Goto(c, "create_session")
            /\ UNCHANGED reply

\* "Create session": a failed create ends the turn
handle_schedule_create_session(c) ==
    /\ pc[c] = "create_session"
    /\ UNCHANGED <<appointments, clients, avail, conversation_context>>
    /\ \/ /\ Len(sessions) < MaxRecords
          /\ create_session(local[c].client_id, DEFAULT_TRAINER,
                            session_datetime(conversation_context[c]), DefaultDuration)
          /\ Goto(c, "update_remaining")
          /\ UNCHANGED <<reply, local>>
       \/ /\ SetReply(c, "session_error")
          /\ Return(c)
          /\ UNCHANGED sessions

\* the end of a successful booking without "Clear context"
handle_schedule_update_remaining_keeping(c) ==
    /\ pc[c] = "update_remaining"
    /\ UNCHANGED <<sessions, appointments, avail, conversation_context>>
    /\ \/ update_client_sessions_remaining(local[c].client_id, local[c].remaining_sessions - 1)
       \/ UNCHANGED clients
    /\ SetReply(c, "scheduled")
    /\ Return(c)

\* "Update remaining sessions", "Clear context" and the confirmation; the result
\* of the update is not looked at
handle_schedule_update_remaining(c) ==
    /\ pc[c] = "update_remaining"
    /\ UNCHANGED <<sessions, appointments, avail>>
    /\ \/ update_client_sessions_remaining(local[c].client_id, local[c].remaining_sessions - 1)
       \/ UNCHANGED clients
    /\ SetContext(c, << >>)
    /\ SetReply(c, "scheduled")
    /\ Return(c)

\* handle_availability_request: the slots of the default trainer on the first
\* date of the utterance, for the default duration
handle_availability_request(c, extracted_info) ==
    /\ UNCHANGED <<storeVars, conversation_context, pc, local>>
    /\ IF extracted_info.dates = << >>
       THEN /\ SetReply(c, "ask_availability_date")
            /\ UNCHANGED avail
       ELSE IF resolve_date(extracted_info.dates[1]) = ParseError
       THEN /\ SetReply(c, "date_not_understood")
            /\ UNCHANGED avail
       ELSE LET check_date == resolve_date(extracted_info.dates[1]) + (now % MinutesPerDay)
                slots == get_available_slots(DEFAULT_TRAINER, check_date, DefaultDuration)
            IN  /\ SetReply(c, IF slots = << >> THEN "no_slots" ELSE "available_times")
                /\ UNCHANGED avail

\* handle_remaining_sessions_request
handle_remaining_sessions_request(c, extracted_info) ==
    /\ UNCHANGED <<storeVars, avail, conversation_context, pc, local>>
    /\ IF extracted_info.phone = None
       THEN SetReply(c, "ask_phone_for_remaining")
       ELSE IF get_client_by_phone(extracted_info.phone) = {}
       THEN SetReply(c, "client_not_found")
       ELSE SetReply(c, "remaining_count")

\* handle_reschedule_request, handle_cancel_request and the reply to any other
\* intent: a fixed text
handle_other_request(c, extracted_info) ==
    /\ SetReply(c, CASE extracted_info.intent = "reschedule" -> "reschedule_prompt"
                     [] extracted_info.intent = "cancel" -> "cancel_prompt"
                     [] OTHER -> "general")
    /\ UNCHANGED <<storeVars, avail, conversation_context, pc, local>>

\* process_scheduling_request putting the fields of every utterance into the
\* draft before it looks at the intent
process_scheduling_request_merging(c, extracted_info) ==
    /\ pc[c] = "idle"
    /\ IF extracted_info.intent = "schedule"
       THEN handle_schedule_request(c, extracted_info)
       ELSE /\ SetContext(c, merge_context(context_of(c), extracted_info))
            /\ SetReply(c, "general")
            /\ UNCHANGED <<storeVars, avail, pc, local>>

\* process_scheduling_request: one utterance of conversation c
process_scheduling_request(c, extracted_info) ==
    /\ pc[c] = "idle"
    /\ CASE extracted_info.intent = "schedule" ->
                handle_schedule_request(c, extracted_info)
         [] extracted_info.intent = "check_availability" ->
                handle_availability_request(c, extracted_info)
         [] extracted_info.intent = "check_remaining" ->
                handle_remaining_sessions_request(c, extracted_info)
         [] OTHER ->
                handle_other_request(c, extracted_info)

-----------------------------------------------------------------------------
(* Specification of the booking dialogue over the session store *)

\* the balance of the client registered before the first call
InitBalance == 1

REGISTERED_PHONE == "9845282323"
UNKNOWN_PHONE == "555-123-4567"

\* a caller's message: the phrases of its lower-cased text that matter to the
\* intent, and the fragments the patterns of the extractor find in it
Message(phrases, name, phone, dates, times) ==
    [phrases |-> phrases, name |-> name, phone |-> phone, dates |-> dates, times |-> times]

\* the keywords found in a phrase when only whole words are compared
KeywordsIn_whole_words(phrase) == {phrase}

\* the keywords that occur inside a phrase: "word in message_lower" is a test
\* for a substring
KeywordsIn(phrase) ==
    CASE phrase = "reschedule"    -> {"reschedule", "schedule"}
      [] phrase = "sessions left" -> {"sessions left", "session"}
      [] phrase = "remove"        -> {"remove", "move"}
      [] OTHER                    -> {phrase}

\* any(word in message_lower for word in words)
any_word_in(words, message) ==
    \E phrase \in message.phrases : KeywordsIn(phrase) \cap words # {}

\* detect_intent with the reschedule keywords tested before the schedule ones
detect_intent_reschedule_first(message) ==
    IF any_word_in({"reschedule", "change", "move"}, message) THEN "reschedule"
    ELSE IF any_word_in({"schedule", "book", "session", "training"}, message) THEN "schedule"
    ELSE IF any_word_in({"cancel", "remove"}, message) THEN "cancel"
    ELSE IF any_word_in({"available", "availability", "free"}, message) THEN "check_availability"
    ELSE IF any_word_in({"remaining", "sessions left", "how many"}, message) THEN "check_remaining"
    ELSE "general"

\* "Intent detection": the if / elif chain over the keyword groups
detect_intent(message) ==
    IF any_word_in({"schedule", "book", "session", "training"}, message) THEN "schedule"
    ELSE IF any_word_in({"reschedule", "change", "move"}, message) THEN "reschedule"
    ELSE IF any_word_in({"cancel", "remove"}, message) THEN "cancel"
    ELSE IF any_word_in({"available", "availability", "free"}, message) THEN "check_availability"
    ELSE IF any_word_in({"remaining", "sessions left", "how many"}, message) THEN "check_remaining"
    ELSE "general"

Utterance(intent, name, phone, dates, times) ==
    [intent |-> intent, name |-> name, phone |-> phone, dates |-> dates, times |-> times]

\* SessionSchedulingAgent.extract_session_intent
extract_session_intent(message) ==
    Utterance(detect_intent(message), message.name, message.phone,
              message.dates, message.times)

\* the messages of the calls
Messages ==
    { Message({"schedule"}, "jane smith", REGISTERED_PHONE, <<"tomorrow">>, <<"9 am">>),
      Message({"schedule"}, "jane smith", UNKNOWN_PHONE, <<"tomorrow">>, <<"9 am">>),
      Message({"book"}, None, None, << >>, <<"9:30 am">>),
      Message({"session"}, None, None, << >>, <<"morning">>),
      Message({"training"}, None, None, << >>, << >>),
      Message({"change"}, None, None, << >>, << >>),
      Message({"cancel"}, None, None, << >>, << >>),
      Message({"available"}, None, None, <<"tomorrow">>, << >>),
      Message({"remaining"}, None, REGISTERED_PHONE, << >>, << >>),
      Message({}, "jane smith", None, << >>, << >>) }

\* the utterances of the calls, as extract_session_intent returns them
Utterances == {extract_session_intent(m) : m \in Messages}

Init ==
    /\ sessions = << >>
    /\ appointments = << >>
    /\ clients = << [name |-> "jane smith", phone |-> REGISTERED_PHONE,
                     sessionsRemaining |-> InitBalance] >>
    /\ avail = NoQuery
    /\ conversation_context = << >>
    /\ pc = [c \in ConvIds |-> "idle"]
    /\ local = [c \in ConvIds |-> NoLocal]
    /\ reply = NoReply
    /\ sweep = [s \in Sweepers |-> NoSweep]
    /\ calls = NoCalls
    /\ extraction = NoExtraction
    /\ service = ServiceUp
    /\ health = NoHealth

Turn ==
    /\ \E c \in ConvIds, u \in Utterances : process_scheduling_request(c, u)
    /\ UNCHANGED <<sweepVars, extraction, healthVars>>
CreateClient ==
    /\ \E c \in ConvIds : handle_schedule_create_client(c)
    /\ UNCHANGED <<sweepVars, extraction, healthVars>>
CheckRemaining ==
    /\ \E c \in ConvIds : handle_schedule_check_remaining(c)
    /\ UNCHANGED <<sweepVars, extraction, healthVars>>
CreateSession ==
    /\ \E c \in ConvIds : handle_schedule_create_session(c)
    /\ UNCHANGED <<sweepVars, extraction, healthVars>>
UpdateRemaining ==
    /\ \E c \in ConvIds : handle_schedule_update_remaining(c)
    /\ UNCHANGED <<sweepVars, extraction, healthVars>>

Next ==
    \/ Turn
    \/ CreateClient
    \/ CheckRemaining
    \/ CreateSession
    \/ UpdateRemaining

Spec == Init /\ [][Next]_vars

-----------------------------------------------------------------------------
(* Specification of one call that fills its draft field by field *)

\* the call whose turns are followed
DraftConv == "call1"

\* messages that carry one field each: with a word that asks for a booking,
\* and bare answers to the agent's prompts; and the requests of the other kinds
DraftMessages ==
    { Message({"book"}, "jane smith", None, << >>, << >>),
      Message({"book"}, None, REGISTERED_PHONE, << >>, << >>),
      Message({"book"}, None, UNKNOWN_PHONE, << >>, << >>),
      Message({"book"}, None, None, <<"tomorrow">>, << >>),
      Message({"book"}, None, None, <<"next week">>, << >>),
      Message({"book"}, None, None, << >>, <<"2pm">>),
      Message({"book"}, None, None, << >>, <<"morning">>),
      Message({}, "jane smith", None, << >>, << >>),
      Message({}, None, UNKNOWN_PHONE, << >>, << >>),
      Message({}, None, None, <<"tomorrow">>, << >>),
      Message({}, None, None, << >>, <<"2pm">>),
      Message({"change"}, None, None, << >>, <<"2pm">>),
      Message({"cancel"}, None, REGISTERED_PHONE, << >>, << >>),
      Message({"available"}, None, None, <<"tomorrow">>, << >>),
      Message({"remaining"}, None, REGISTERED_PHONE, << >>, << >>) }

DraftUtterances == {extract_session_intent(m) : m \in DraftMessages}

DraftTurn ==
    /\ \E u \in DraftUtterances : process_scheduling_request(DraftConv, u)
    /\ UNCHANGED <<sweepVars, extraction, healthVars>>

DraftNext ==
    \/ DraftTurn
    \/ CreateClient
    \/ CheckRemaining
    \/ CreateSession
    \/ UpdateRemaining

SpecDraft == Init /\ [][DraftNext]_vars

-----------------------------------------------------------------------------
(* Specification of two calls that book with complete utterances *)

CallMessages ==
    { Message({"schedule"}, "jane smith", REGISTERED_PHONE, <<"tomorrow">>, <<"9 am">>),
      Message({"schedule"}, "jane smith", REGISTERED_PHONE, <<"tomorrow">>, <<"8 pm">>),
      Message({"schedule"}, "jane smith", UNKNOWN_PHONE, <<"tomorrow">>, <<"2pm">>),
      Message({"change"}, None, None, << >>, <<"2pm">>),
      Message({"cancel"}, None, REGISTERED_PHONE, << >>, << >>),
      Message({"available"}, None, None, <<"tomorrow">>, << >>),
      Message({"remaining"}, None, REGISTERED_PHONE, << >>, << >>),
      Message({}, "jane smith", None, << >>, << >>) }

CallUtterances == {extract_session_intent(m) : m \in CallMessages}

CallTurn ==
    /\ \E c \in ConvIds, u \in CallUtterances : process_scheduling_request(c, u)
    /\ UNCHANGED <<sweepVars, extraction, healthVars>>

CallsNext ==
    \/ CallTurn
    \/ CreateClient
    \/ CheckRemaining
    \/ CreateSession
    \/ UpdateRemaining

SpecCalls == Init /\ [][CallsNext]_vars

-----------------------------------------------------------------------------
(* Reminders: the queries, the flag and the sweeps (utils/session_utils.py,
   utils/appointment_utils.py, outbound_session_calls.py,
   outbound_appointment_calls.py, appointment_scheduler.py) *)

\* datetime.utcnow(): the server clock is UTC and reads the instant now reads
utcnow == now

\* hours_ahead: the default of both queries, which every caller leaves or repeats
ReminderLead == 24

\* the elements of a set of ids in ascending order: the order in which the
\* store streams the documents of a query
RECURSIVE ascending(_)
ascending(ids) ==
    IF ids = {} THEN << >>
    ELSE LET first == CHOOSE x \in ids : \A y \in ids : x <= y
         IN  <<first>> \o ascending(ids \ {first})

\* get_sessions_needing_reminders with a floor at the current instant
get_sessions_needing_reminders_from_now(hours_ahead) ==
    ascending({ id \in 1..Len(sessions) :
                  /\ sessions[id].autoReminderSent = FALSE
                  /\ sessions[id].status = "scheduled"
                  /\ sessions[id].dateTime >= utcnow
                  /\ sessions[id].dateTime <= utcnow + hours_ahead * MinutesPerHour })

\* SessionManager.get_sessions_needing_reminders
get_sessions_needing_reminders(hours_ahead) ==
    ascending({ id \in 1..Len(sessions) :
                  /\ sessions[id].autoReminderSent = FALSE
                  /\ sessions[id].status = "scheduled"
                  /\ sessions[id].dateTime <= utcnow + hours_ahead * MinutesPerHour })

\* AppointmentManager.get_appointments_needing_reminders
get_appointments_needing_reminders(hours_ahead) ==
    ascending({ id \in 1..Len(appointments) :
                  /\ appointments[id].reminder_sent = FALSE
                  /\ appointments[id].status \in {"scheduled", "confirmed"}
                  /\ appointments[id].appointment_time
                        <= utcnow + hours_ahead * MinutesPerHour })

\* mark_reminder_sent recording the method of the reminder and not the flag
mark_reminder_sent_method_only(session_id) ==
    /\ session_id \in 1..Len(sessions)
    /\ sessions' = sessions

\* SessionManager.mark_reminder_sent, the update that succeeds
mark_reminder_sent(session_id) ==
    /\ session_id \in 1..Len(sessions)
    /\ sessions' = [sessions EXCEPT ![session_id].autoReminderSent = TRUE]

\* AppointmentManager.mark_reminder_sent, the update that succeeds
appointment_mark_reminder_sent(appointment_id) ==
    /\ appointment_id \in 1..Len(appointments)
    /\ appointments' = [appointments EXCEPT ![appointment_id].reminder_sent = TRUE]

\* instants at which the reminder steps book or to which they reschedule: one
\* already past, one inside the lead, one beyond it
ReminderInstants == {now - MinutesPerHour,
                     now + 23 * MinutesPerHour,
                     now + 30 * MinutesPerHour}

PlanSession ==
    /\ Len(sessions) < MaxRecords
    /\ appointments = << >>
    /\ \E at \in ReminderInstants :
          create_session(StoreClient, DEFAULT_TRAINER, at, DefaultDuration)
    /\ UNCHANGED <<appointments, clients, dialogVars, healthVars, sweepVars>>
    /\ avail' = NoQuery

MoveSession ==
    /\ \E id \in 1..Len(sessions), at \in ReminderInstants : reschedule_session(id, at)
    /\ UNCHANGED <<appointments, clients, dialogVars, healthVars, sweepVars>>
    /\ avail' = NoQuery

MarkSessionReminderSent ==
    /\ \E id \in 1..Len(sessions) : mark_reminder_sent(id)
    /\ UNCHANGED <<appointments, clients, dialogVars, healthVars, sweepVars>>
    /\ avail' = NoQuery

PlanAppointment ==
    /\ Len(appointments) < MaxRecords
    /\ sessions = << >>
    /\ \E at \in ReminderInstants :
          create_appointment(StoreClient, DEFAULT_TRAINER, at, DefaultDuration)
    /\ UNCHANGED <<sessions, clients, dialogVars, healthVars, sweepVars>>
    /\ avail' = NoQuery

MoveAppointment ==
    /\ \E id \in 1..Len(appointments), at \in ReminderInstants :
          reschedule_appointment(id, at)
    /\ UNCHANGED <<sessions, clients, dialogVars, healthVars, sweepVars>>
    /\ avail' = NoQuery

MarkAppointmentReminderSent ==
    /\ \E id \in 1..Len(appointments) : appointment_mark_reminder_sent(id)
    /\ UNCHANGED <<sessions, clients, dialogVars, healthVars, sweepVars>>
    /\ avail' = NoQuery

\* the state of a loop that is about to start on its list: the counters at
\* zero, the dictionary of results (bulk_scheduling_calls) empty
Fetched(variant, queue) ==
    [pc |-> IF queue = << >> THEN "idle" ELSE "call", variant |-> variant,
     queue |-> queue, i |-> 1, success |-> FALSE, results |-> {}, total |-> Len(queue),
     successful |-> 0, failed |-> 0, delays |-> 0]

\* process_reminder_queue up to the loop: the list is fetched once
session_sweep_fetch(s) ==
    /\ sweep[s].pc = "idle"
    /\ appointments = << >>
    /\ sweep' = [sweep EXCEPT ![s] =
                    Fetched("session", get_sessions_needing_reminders(ReminderLead))]
    /\ UNCHANGED <<storeVars, avail, dialogVars, healthVars, calls>>

\* the attempt of the loop has failed: it is counted and the delay follows
attempt_failed(s) ==
    sweep' = [sweep EXCEPT ![s].success = FALSE, ![s].failed = @ + 1, ![s].pc = "sleep"]

\* a reminder dispatch has returned False
dispatch_failed(s) ==
    /\ attempt_failed(s)
    /\ calls' = [calls EXCEPT !.failed = @ \cup {sweep[s].queue[sweep[s].i]}]

\* make_reminder_call placing the call without looking up the client record
session_sweep_call_unchecked(s) ==
    /\ sweep[s].pc = "call"
    /\ sweep[s].variant = "session"
    /\ LET session_id == sweep[s].queue[sweep[s].i] IN
       IF session_id \notin 1..Len(sessions)
       THEN dispatch_failed(s)
       ELSE \/ /\ calls' = [calls EXCEPT !.placed = @ \cup {session_id}]
               /\ sweep' = [sweep EXCEPT ![s].pc = "mark"]
            \/ dispatch_failed(s)
    /\ UNCHANGED <<storeVars, avail, dialogVars, healthVars>>

\* SessionOutboundCaller.make_reminder_call up to the return of _make_call
session_sweep_call(s) ==
    /\ sweep[s].pc = "call"
    /\ sweep[s].variant = "session"
    /\ LET session_id == sweep[s].queue[sweep[s].i] IN
       IF \/ session_id \notin 1..Len(sessions)
          \/ sessions[session_id].clientId \notin 1..Len(clients)
       THEN \* "Session ... not found" / "Client ... not found": return False
            dispatch_failed(s)
       ELSE \/ \* the call is initiated: _make_call returns True
               /\ calls' = [calls EXCEPT !.placed = @ \cup {session_id}]
               /\ sweep' = [sweep EXCEPT ![s].pc = "mark"]
            \/ \* _make_call caught an exception and returned False
               dispatch_failed(s)
    /\ UNCHANGED <<storeVars, avail, dialogVars, healthVars>>

\* make_reminder_call after a call that was initiated: mark_reminder_sent, whose
\* result is not read, then "return success", which the loop counts
session_sweep_mark(s) ==
    /\ sweep[s].pc = "mark"
    /\ sweep[s].variant = "session"
    /\ \/ /\ mark_reminder_sent(sweep[s].queue[sweep[s].i])
          /\ avail' = NoQuery
       \/ \* the update raised: mark_reminder_sent returns False
          UNCHANGED <<sessions, avail>>
    /\ sweep' = [sweep EXCEPT ![s].success = TRUE, ![s].successful = @ + 1,
                                 ![s].pc = "sleep"]
    /\ UNCHANGED <<appointments, clients, dialogVars, healthVars, calls>>

\* the loop of a sweep that, after the delay, tries again the item that failed
sweep_sleep_retrying(s) ==
    /\ sweep[s].pc = "sleep"
    /\ sweep[s].variant # "scheduling"
    /\ sweep' = [sweep EXCEPT
                    ![s].delays = @ + 1,
                    ![s].i = IF sweep[s].success THEN @ + 1 ELSE @,
                    ![s].failed = IF sweep[s].success THEN @ ELSE @ - 1,
                    ![s].pc = IF sweep[s].success /\ sweep[s].i + 1 > Len(sweep[s].queue)
                              THEN "idle" ELSE "call"]
    /\ UNCHANGED <<storeVars, avail, dialogVars, healthVars, calls>>

\* the loop of a sweep that sleeps only after an attempt that succeeded
sweep_sleep_after_success(s) ==
    /\ sweep[s].pc = "sleep"
    /\ sweep[s].variant # "scheduling"
    /\ sweep' = [sweep EXCEPT
                    ![s].delays = IF sweep[s].success THEN @ + 1 ELSE @,
                    ![s].i = @ + 1,
                    ![s].pc = IF sweep[s].i + 1 > Len(sweep[s].queue)
                              THEN "idle" ELSE "call"]
    /\ UNCHANGED <<storeVars, avail, dialogVars, healthVars, calls>>

\* "await asyncio.sleep(...)" at the end of the try block, then the next item
\* of the list or, after the last one, the return of the statistics
sweep_sleep(s) ==
    /\ sweep[s].pc = "sleep"
    /\ sweep[s].variant # "scheduling"
    /\ sweep' = [sweep EXCEPT
                    ![s].delays = @ + 1,
                    ![s].i = @ + 1,
                    ![s].pc = IF sweep[s].i + 1 > Len(sweep[s].queue)
                              THEN "idle" ELSE "call"]
    /\ UNCHANGED <<storeVars, avail, dialogVars, healthVars, calls>>

\* send_daily_reminders up to the loop
appointment_sweep_fetch(s) ==
    /\ sweep[s].pc = "idle"
    /\ sessions = << >>
    /\ sweep' = [sweep EXCEPT ![s] =
                    Fetched("appointment",
                            get_appointments_needing_reminders(ReminderLead))]
    /\ UNCHANGED <<storeVars, avail, dialogVars, healthVars, calls>>

\* AppointmentOutboundCaller.make_reminder_call up to the return of
\* outbound_call.start()
appointment_sweep_call(s) ==
    /\ sweep[s].pc = "call"
    /\ sweep[s].variant = "appointment"
    /\ LET appointment_id == sweep[s].queue[sweep[s].i] IN
       IF \/ appointment_id \notin 1..Len(appointments)
          \/ appointments[appointment_id].client_id \notin 1..Len(clients)
       THEN dispatch_failed(s)
       ELSE \/ \* start() returned: the call is placed
               /\ calls' = [calls EXCEPT !.placed = @ \cup {appointment_id}]
               /\ sweep' = [sweep EXCEPT ![s].pc = "mark"]
            \/ \* start() raised: the except branch returns False
               dispatch_failed(s)
    /\ UNCHANGED <<storeVars, avail, dialogVars, healthVars>>

\* AppointmentOutboundCaller.make_reminder_call after start(): mark_reminder_sent,
\* whose result is not read, then "return True"
appointment_sweep_mark(s) ==
    /\ sweep[s].pc = "mark"
    /\ sweep[s].variant = "appointment"
    /\ \/ /\ appointment_mark_reminder_sent(sweep[s].queue[sweep[s].i])
          /\ avail' = NoQuery
       \/ UNCHANGED <<appointments, avail>>
    /\ sweep' = [sweep EXCEPT ![s].success = TRUE, ![s].successful = @ + 1,
                                 ![s].pc = "sleep"]
    /\ UNCHANGED <<sessions, clients, dialogVars, healthVars, calls>>

\* the trigger whose sweeps are followed
TheSweeper == "sweep1"

FetchSessions == session_sweep_fetch(TheSweeper)
CallSession == session_sweep_call(TheSweeper)
MarkSession == session_sweep_mark(TheSweeper)
FetchAppointments == appointment_sweep_fetch(TheSweeper)
CallAppointment == appointment_sweep_call(TheSweeper)
MarkAppointment == appointment_sweep_mark(TheSweeper)
Sleep == sweep_sleep(TheSweeper)

ReminderInit ==
    /\ sessions = << >>
    /\ appointments = << >>
    /\ clients = << [name |-> "jane smith", phone |-> REGISTERED_PHONE,
                     sessionsRemaining |-> InitBalance] >>
    /\ avail = NoQuery
    /\ conversation_context = << >>
    /\ pc = [c \in ConvIds |-> "idle"]
    /\ local = [c \in ConvIds |-> NoLocal]
    /\ reply = NoReply
    /\ sweep = [s \in Sweepers |-> NoSweep]
    /\ calls = NoCalls
    /\ extraction = NoExtraction
    /\ service = ServiceUp
    /\ health = NoHealth

RemindersNext ==
    \/ PlanSession
    \/ MoveSession
    \/ SetSessionStatus
    \/ CancelSession
    \/ MarkSessionReminderSent
    \/ PlanAppointment
    \/ MoveAppointment
    \/ SetAppointmentStatus
    \/ CancelAppointment
    \/ MarkAppointmentReminderSent

SpecReminders == ReminderInit /\ [][RemindersNext]_vars

\* the sweeps of one trigger, while sessions or appointments are booked and
\* cancelled
SweepNext ==
    \/ PlanSession
    \/ CancelSession
    \/ PlanAppointment
    \/ CancelAppointment
    \/ FetchSessions
    \/ CallSession
    \/ MarkSession
    \/ FetchAppointments
    \/ CallAppointment
    \/ MarkAppointment
    \/ Sleep

SpecSweep == ReminderInit /\ [][SweepNext]_vars

\* create_session for a client id that has no record: the id is stored as given
PlanOrphanSession ==
    /\ Len(sessions) < MaxRecords
    /\ appointments = << >>
    /\ \E at \in ReminderInstants :
          create_session(Len(clients) + 1, DEFAULT_TRAINER, at, DefaultDuration)
    /\ UNCHANGED <<appointments, clients, dialogVars, healthVars, sweepVars>>
    /\ avail' = NoQuery

\* create_appointment for a client id that has no record
PlanOrphanAppointment ==
    /\ Len(appointments) < MaxRecords
    /\ sessions = << >>
    /\ \E at \in ReminderInstants :
          create_appointment(Len(clients) + 1, DEFAULT_TRAINER, at, DefaultDuration)
    /\ UNCHANGED <<sessions, clients, dialogVars, healthVars, sweepVars>>
    /\ avail' = NoQuery

\* AppointmentSchedulerService.trigger_reminder_call: one call of
\* AppointmentOutboundCaller.make_reminder_call for an id given by the operator
trigger_reminder_call(appointment_id) ==
    /\ sessions = << >>
    /\ IF \/ appointment_id \notin 1..Len(appointments)
          \/ appointments[appointment_id].client_id \notin 1..Len(clients)
       THEN \* "Appointment ... not found" / "Client ... not found": return False
            /\ calls' = [calls EXCEPT !.failed = @ \cup {appointment_id}]
            /\ UNCHANGED <<appointments, avail>>
       ELSE \/ \* start() returned, mark_reminder_sent, return True
               /\ calls' = [calls EXCEPT !.placed = @ \cup {appointment_id}]
               /\ \/ /\ appointment_mark_reminder_sent(appointment_id)
                     /\ avail' = NoQuery
                  \/ UNCHANGED <<appointments, avail>>
            \/ \* start() raised: return False
               /\ calls' = [calls EXCEPT !.failed = @ \cup {appointment_id}]
               /\ UNCHANGED <<appointments, avail>>
    /\ UNCHANGED <<sessions, clients, dialogVars, healthVars, sweep>>

\* the sweeps of one trigger and the manual trigger, over sessions and
\* appointments some of which name a client that has no record
DispatchNext ==
    \/ PlanSession
    \/ PlanOrphanSession
    \/ PlanAppointment
    \/ PlanOrphanAppointment
    \/ FetchSessions
    \/ CallSession
    \/ MarkSession
    \/ FetchAppointments
    \/ CallAppointment
    \/ MarkAppointment
    \/ Sleep
    \/ \E appointment_id \in 1..MaxRecords + 1 : trigger_reminder_call(appointment_id)

SpecDispatch == ReminderInit /\ [][DispatchNext]_vars

\* two triggers of POST /sessions/send-reminders whose sweeps overlap: each
\* request runs process_reminder_queue on the event loop, which takes up the
\* other at every await
OverlapNext ==
    \/ PlanSession
    \/ \E s \in Sweepers : session_sweep_fetch(s)
    \/ \E s \in Sweepers : session_sweep_call(s)
    \/ \E s \in Sweepers : session_sweep_mark(s)
    \/ \E s \in Sweepers : sweep_sleep(s)

SpecOverlap == ReminderInit /\ [][OverlapNext]_vars

\* the sweeps of one trigger while sessions or appointments are booked, with
\* every await of a sweep returning: the dispatch (the call is initiated or
\* fails, the update of the flag returns) and the delay
LiveNext ==
    \/ PlanSession
    \/ PlanAppointment
    \/ FetchSessions
    \/ CallSession
    \/ MarkSession
    \/ FetchAppointments
    \/ CallAppointment
    \/ MarkAppointment
    \/ Sleep

SpecLive ==
    /\ ReminderInit
    /\ [][LiveNext]_vars
    /\ WF_vars(CallSession)
    /\ WF_vars(MarkSession)
    /\ WF_vars(CallAppointment)
    /\ WF_vars(MarkAppointment)
    /\ WF_vars(Sleep)

-----------------------------------------------------------------------------
(* The bulk loops: follow-up calls to a list of clients
   (outbound_session_calls.py) and scheduling calls to a list of phone numbers
   (outbound_appointment_calls.py, appointment_scheduler.py) *)

\* items in the list given to a bulk loop
MaxBatch == 2

\* the lists of at most MaxBatch items of a set
ListsOf(items) == UNION { [1..n -> items] : n \in 0..MaxBatch }

\* the phone lists given to process_scheduling_queue
PhoneLists == ListsOf({REGISTERED_PHONE, UNKNOWN_PHONE})
\* the client lists given to bulk_follow_up_calls: client 2 has no record
ClientLists == ListsOf({1, 2})

\* bulk_follow_up_calls up to the loop
bulk_follow_up_start(s, client_ids) ==
    /\ sweep[s].pc = "idle"
    /\ sweep' = [sweep EXCEPT ![s] = Fetched("follow_up", client_ids)]
    /\ UNCHANGED <<storeVars, avail, dialogVars, healthVars, calls>>

\* make_follow_up_call and the count of its result
bulk_follow_up_call(s) ==
    /\ sweep[s].pc = "call"
    /\ sweep[s].variant = "follow_up"
    /\ IF sweep[s].queue[sweep[s].i] \notin 1..Len(clients)
       THEN \* "Client ... not found": return False
            attempt_failed(s)
       ELSE \/ \* _make_call returns True
               sweep' = [sweep EXCEPT ![s].success = TRUE, ![s].successful = @ + 1,
                                      ![s].pc = "sleep"]
            \/ \* _make_call caught an exception and returned False
               attempt_failed(s)
    /\ UNCHANGED <<storeVars, avail, dialogVars, healthVars, calls>>

\* process_scheduling_queue up to the loop of bulk_scheduling_calls; for an
\* empty list, up to its return
bulk_scheduling_start(s, phone_numbers) ==
    /\ sweep[s].pc = "idle"
    /\ sweep' = [sweep EXCEPT ![s] = Fetched("scheduling", phone_numbers)]
    /\ UNCHANGED <<storeVars, avail, dialogVars, healthVars, calls>>

\* make_scheduling_call, then "results[phone_number] = success": an entry of
\* the dictionary under the same number is replaced
bulk_scheduling_call(s) ==
    /\ sweep[s].pc = "call"
    /\ sweep[s].variant = "scheduling"
    /\ \E success \in BOOLEAN :
          LET phone_number == sweep[s].queue[sweep[s].i] IN
          sweep' = [sweep EXCEPT
                       ![s].success = success,
                       ![s].results = {r \in @ : r[1] # phone_number}
                                         \cup {<<phone_number, success>>},
                       ![s].pc = "sleep"]
    /\ UNCHANGED <<storeVars, avail, dialogVars, healthVars, calls>>

\* the delay of bulk_scheduling_calls, then the next number or, after the last
\* one, the return of the dictionary and the counts process_scheduling_queue
\* takes from it
bulk_scheduling_sleep(s) ==
    /\ sweep[s].pc = "sleep"
    /\ sweep[s].variant = "scheduling"
    /\ IF sweep[s].i + 1 > Len(sweep[s].queue)
       THEN LET successful == Cardinality({r \in sweep[s].results : r[2]}) IN
            sweep' = [sweep EXCEPT
                         ![s].delays = @ + 1,
                         ![s].i = @ + 1,
                         ![s].successful = successful,
                         ![s].failed = Cardinality(sweep[s].results) - successful,
                         ![s].pc = "idle"]
       ELSE sweep' = [sweep EXCEPT ![s].delays = @ + 1, ![s].i = @ + 1,
                                   ![s].pc = "call"]
    /\ UNCHANGED <<storeVars, avail, dialogVars, healthVars, calls>>

StartFollowUps == \E client_ids \in ClientLists : bulk_follow_up_start(TheSweeper, client_ids)
CallFollowUp == bulk_follow_up_call(TheSweeper)
StartScheduling ==
    \E phone_numbers \in PhoneLists : bulk_scheduling_start(TheSweeper, phone_numbers)
CallScheduling == bulk_scheduling_call(TheSweeper)
SleepScheduling == bulk_scheduling_sleep(TheSweeper)

\* the batch loops of one caller, one after the other, while sessions or
\* appointments are booked
BatchNext ==
    \/ PlanSession
    \/ PlanAppointment
    \/ FetchSessions
    \/ CallSession
    \/ MarkSession
    \/ FetchAppointments
    \/ CallAppointment
    \/ MarkAppointment
    \/ Sleep
    \/ StartFollowUps
    \/ CallFollowUp
    \/ StartScheduling
    \/ CallScheduling
    \/ SleepScheduling

SpecBatch == ReminderInit /\ [][BatchNext]_vars

-----------------------------------------------------------------------------
(* The extractors applied to a text (session_agent.py 64-128,
   appointment_agent.py 61-123).  A text is the sequence of its fragments in
   the order in which they are said. *)

\* message.lower(), fragment by fragment
lower(fragment) ==
    CASE fragment = "Book"       -> "book"
      [] fragment = "Reschedule" -> "reschedule"
      [] fragment = "CANCEL"     -> "cancel"
      [] fragment = "Tomorrow"   -> "tomorrow"
      [] fragment = "9 AM"       -> "9 am"
      [] OTHER                   -> fragment

message_lower(text) == [k \in DOMAIN text |-> lower(text[k])]

\* date_patterns, in the order of the list: weekday names, numeric dates,
\* relative terms
date_patterns ==
    << {"monday", "tuesday", "wednesday", "thursday", "friday", "saturday", "sunday"},
       {"12/15/2023"},
       {"today", "tomorrow", "next week"} >>

\* time_patterns, in the order of the list: H:MM am/pm, H am/pm, day parts
time_patterns ==
    << {"9:30 am", "3:30 pm"},
       {"9 am", "2pm", "8 pm"},
       {"morning", "afternoon", "evening"} >>

\* re.findall(pattern, message_lower): the matches of one pattern, in the order
\* of the text
findall(pattern, text) == SelectSeq(text, LAMBDA fragment : fragment \in pattern)

\* "for pattern in patterns: extracted.extend(re.findall(pattern, message_lower))"
\* from pattern k on
RECURSIVE extend_matches(_, _, _)
extend_matches(patterns, k, text) ==
    IF k > Len(patterns) THEN << >>
    ELSE findall(patterns[k], text) \o extend_matches(patterns, k + 1, text)

\* the message a text is to the extractor: its lower-cased fragments as the
\* phrases the keywords are looked up in, and the matches of the date and time
\* patterns
Heard(text) ==
    Message({message_lower(text)[k] : k \in DOMAIN text}, None, None,
            extend_matches(date_patterns, 1, message_lower(text)),
            extend_matches(time_patterns, 1, message_lower(text)))

\* "Intent detection" of the appointment agent: four keyword groups
detect_appointment_intent(message) ==
    IF any_word_in({"schedule", "book", "appointment", "session"}, message) THEN "schedule"
    ELSE IF any_word_in({"reschedule", "change", "move"}, message) THEN "reschedule"
    ELSE IF any_word_in({"cancel", "remove"}, message) THEN "cancel"
    ELSE IF any_word_in({"available", "availability", "free"}, message) THEN "check_availability"
    ELSE "general"

\* AppointmentSchedulingAgent.extract_appointment_intent
extract_appointment_intent(message) ==
    Utterance(detect_appointment_intent(message), message.name, message.phone,
              message.dates, message.times)

\* fragments in a text given to the extractors
MaxFragments == 2

\* the fragments the texts are made of: keywords of every group, some of them
\* inside a keyword of another group or in capitals, dates and times of every
\* pattern, and a word no pattern knows
Fragments ==
    {"Book", "training", "appointment", "Reschedule", "change", "CANCEL", "remove",
     "free", "remaining", "sessions left", "how many", "hello",
     "monday", "12/15/2023", "Tomorrow", "3:30 pm", "9 AM", "morning"}

Texts == UNION { [1..n -> Fragments] : n \in 0..MaxFragments }

ExtractSession ==
    /\ extraction = NoExtraction
    /\ \E text \in Texts :
          extraction' = [agent |-> "session", text |-> text,
                         result |-> extract_session_intent(Heard(text))]
    /\ UNCHANGED <<storeVars, avail, conversation_context, pc, local, reply, sweepVars, healthVars>>

ExtractAppointment ==
    /\ extraction = NoExtraction
    /\ \E text \in Texts :
          extraction' = [agent |-> "appointment", text |-> text,
                         result |-> extract_appointment_intent(Heard(text))]
    /\ UNCHANGED <<storeVars, avail, conversation_context, pc, local, reply, sweepVars, healthVars>>

\* one call of an extractor on one text: the extractors keep no state
ExtractNext ==
    \/ ExtractSession
    \/ ExtractAppointment

SpecExtract == Init /\ [][ExtractNext]_vars

-----------------------------------------------------------------------------
(* The health-check endpoint (main.py 216-234) and the store going out of
   reach *)

\* SessionManager.get_trainer_by_id as the endpoint sees it: the read of an
\* unreachable store raises, the exception is caught and None is returned
get_trainer_by_id(trainer_id) ==
    IF service.reachable /\ service.trainer_exists THEN trainer_id ELSE None

\* health_check: the answer of GET /health
health_check ==
    [status |-> "healthy",
     session_system |-> service.session_system,
     use_session_agent |-> service.use_session_agent,
     firebase_connected |-> IF service.session_system
                            THEN get_trainer_by_id(DEFAULT_TRAINER) # None
                            ELSE FALSE]

\* what main.py can have loaded at start: the session system or not
\* (SESSION_SYSTEM_AVAILABLE), the session agent or not (USE_SESSION_AGENT),
\* with or without the record of the trainer in the store
Services == [session_system : BOOLEAN, use_session_agent : BOOLEAN,
             reachable : {TRUE}, trainer_exists : BOOLEAN]

HealthInit ==
    /\ sessions = << >>
    /\ appointments = << >>
    /\ clients = << [name |-> "jane smith", phone |-> REGISTERED_PHONE,
                     sessionsRemaining |-> InitBalance] >>
    /\ avail = NoQuery
    /\ conversation_context = << >>
    /\ pc = [c \in ConvIds |-> "idle"]
    /\ local = [c \in ConvIds |-> NoLocal]
    /\ reply = NoReply
    /\ sweep = [s \in Sweepers |-> NoSweep]
    /\ calls = NoCalls
    /\ extraction = NoExtraction
    /\ service \in Services
    /\ health = NoHealth

\* the persistence collaborator goes out of reach
StoreDown ==
    /\ service.reachable
    /\ service' = [service EXCEPT !.reachable = FALSE]
    /\ UNCHANGED <<storeVars, avail, dialogVars, sweepVars, health>>

\* the persistence collaborator is back
StoreUp ==
    /\ ~service.reachable
    /\ service' = [service EXCEPT !.reachable = TRUE]
    /\ UNCHANGED <<storeVars, avail, dialogVars, sweepVars, health>>

HealthCheck ==
    /\ health' = health_check
    /\ UNCHANGED <<storeVars, avail, dialogVars, sweepVars, service>>

\* the store operations the process serves while the store is in reach
ServeBooking == service.session_system /\ service.reachable /\ PlanSession
ServeCancel == service.session_system /\ service.reachable /\ CancelSession

HealthNext ==
    \/ StoreDown
    \/ StoreUp
    \/ HealthCheck
    \/ ServeBooking
    \/ ServeCancel

SpecHealth == HealthInit /\ [][HealthNext]_vars

-----------------------------------------------------------------------------
(* Vocabulary of the properties *)

Range(seq) == {seq[i] : i \in 1..Len(seq)}

\* half-open intervals [a, a + da) and [b, b + db) overlap
Overlap(a, da, b, db) == a < b + db /\ a + da > b

IsAscending(seq) == \A i \in 1..Len(seq) - 1 : seq[i] < seq[i + 1]

\* durations for which the properties of the availability engine are checked
CheckDurations == {30, 45, DefaultDuration, 9 * MinutesPerHour}

BusinessOpen(date) == start_of_day(date) + business_start * MinutesPerHour
BusinessClose(date) == start_of_day(date) + business_end * MinutesPerHour

\* the candidate starts of a day: the 30-minute grid from business open
Grid(date) == {BusinessOpen(date) + k * SlotStep :
                  k \in 0..((business_end - business_start) * MinutesPerHour) \div SlotStep}

SameDay(instant, date) == start_of_day(instant) = start_of_day(date)

\* sessions that are not yet followed by the decrement of their booking
InFlight(k) == {c \in ConvIds : pc[c] = "update_remaining" /\ local[c].client_id = k}
SessionsOf(k) == {i \in 1..Len(sessions) : sessions[i].clientId = k}
InitialBalance(k) == IF k = 1 THEN InitBalance ELSE 0

-----------------------------------------------------------------------------
(* C1: no two active sessions (scheduled or confirmed) of one trainer have
   overlapping intervals [dateTime, dateTime + duration), in any reachable
   state of the dialogue. *)
C1_NoOverlappingActiveSessions ==
    \A i, j \in 1..Len(sessions) :
        ( /\ i # j
          /\ sessions[i].trainerId = sessions[j].trainerId
          /\ sessions[i].status \in ActiveStatuses
          /\ sessions[j].status \in ActiveStatuses )
        => ~Overlap(sessions[i].dateTime, sessions[i].duration,
                    sessions[j].dateTime, sessions[j].duration)

(* C2: a booking commit whose interval overlaps an active session (or
   appointment) of the same trainer creates no record: every step that adds a
   record adds one that overlaps no active record of its trainer. *)
C2_OverlappingCommitCreatesNothing ==
    [][ /\ Len(sessions') > Len(sessions) =>
            \A i \in 1..Len(sessions) :
                ( /\ sessions[i].trainerId = sessions'[Len(sessions')].trainerId
                  /\ sessions[i].status \in ActiveStatuses )
                => ~Overlap(sessions'[Len(sessions')].dateTime,
                            sessions'[Len(sessions')].duration,
                            sessions[i].dateTime, sessions[i].duration)
        /\ Len(appointments') > Len(appointments) =>
            \A i \in 1..Len(appointments) :
                ( /\ appointments[i].trainer_id = appointments'[Len(appointments')].trainer_id
                  /\ appointments[i].status \in ActiveStatuses )
                => ~Overlap(appointments'[Len(appointments')].appointment_time,
                            appointments'[Len(appointments')].duration_minutes,
                            appointments[i].appointment_time,
                            appointments[i].duration_minutes)
      ]_vars

(* C3: for every client, sessionsRemaining equals the initial balance minus the
   number of sessions committed for the client (a session whose booking has
   not reached its decrement yet is not counted as committed). *)
C3_BalanceCountsCommittedBookings ==
    \A k \in 1..Len(clients) :
        clients[k].sessionsRemaining =
            InitialBalance(k) - (Cardinality(SessionsOf(k)) - Cardinality(InFlight(k)))

(* C4: sessionsRemaining is never negative, and a booking attempt that finds
   the client's sessionsRemaining at 0 commits no session: an attempt that is
   past the check of the balance has read a balance of at least 1. *)
C4_BalanceNeverNegative ==
    /\ \A k \in 1..Len(clients) : clients[k].sessionsRemaining >= 0
    /\ \A c \in ConvIds :
          pc[c] \in {"create_session", "update_remaining"} =>
              local[c].remaining_sessions >= 1

\* a client whose package is used up by a booking was refused the next one
C4_Witness ==
    /\ clients[1].sessionsRemaining = 0
    /\ Len(sessions) = 1
    /\ sessions[1].clientId = 1
    /\ reply = "no_sessions_remaining"
    /\ \A c \in ConvIds : pc[c] = "idle"

-----------------------------------------------------------------------------
(* Properties of the availability engine, stated for every trainer, every day
   of QueryDates and every duration of CheckDurations, on the current store *)

SessionRecords(trainer_id, date) ==
    {i \in 1..Len(sessions) :
        sessions[i].trainerId = trainer_id /\ SameDay(sessions[i].dateTime, date)}

AppointmentRecords(trainer_id, date) ==
    {i \in 1..Len(appointments) :
        appointments[i].trainer_id = trainer_id
        /\ SameDay(appointments[i].appointment_time, date)}

\* the slot [g, g + dur) overlaps session i, appointment i
HitsSession(g, dur, i) == Overlap(g, dur, sessions[i].dateTime, sessions[i].duration)
HitsAppointment(g, dur, i) ==
    Overlap(g, dur, appointments[i].appointment_time, appointments[i].duration_minutes)

(* C5: no returned start overlaps an existing active session (appointment)
   of that trainer. *)
C5_SlotsAvoidActiveSessions ==
    \A t \in Trainers, d \in QueryDates, dur \in CheckDurations :
        /\ \A g \in Range(get_available_slots(t, d, dur)) :
              \A i \in 1..Len(sessions) :
                  (sessions[i].trainerId = t /\ sessions[i].status \in ActiveStatuses)
                  => ~HitsSession(g, dur, i)
        /\ \A g \in Range(appointment_get_available_slots(t, d, dur)) :
              \A i \in 1..Len(appointments) :
                  (appointments[i].trainer_id = t /\ appointments[i].status \in ActiveStatuses)
                  => ~HitsAppointment(g, dur, i)

(* C6: every returned slot starts at or after business open and ends at or
   before business close of the requested day. *)
C6_SlotsWithinBusinessHours ==
    \A t \in Trainers, d \in QueryDates, dur \in CheckDurations :
        \A g \in Range(get_available_slots(t, d, dur))
                 \cup Range(appointment_get_available_slots(t, d, dur)) :
            g >= BusinessOpen(d) /\ g + dur <= BusinessClose(d)

\* a call has returned slots, the last of which ends exactly at business close
C6_Witness ==
    /\ avail # NoQuery
    /\ avail.slots # << >>
    /\ avail.slots[1] = BusinessOpen(avail.date)
    /\ avail.slots[Len(avail.slots)] + avail.duration_minutes = BusinessClose(avail.date)
    /\ Len(sessions) + Len(appointments) > 0

\* the starts the specification asks for: on the grid, fitting before close,
\* free of conflict with every non-cancelled record of the trainer on that day
ExpectedSessionSlots(t, d, dur) ==
    {g \in Grid(d) :
        /\ g + dur <= BusinessClose(d)
        /\ \A i \in SessionRecords(t, d) :
              sessions[i].status # "cancelled" => ~HitsSession(g, dur, i)}

ExpectedAppointmentSlots(t, d, dur) ==
    {g \in Grid(d) :
        /\ g + dur <= BusinessClose(d)
        /\ \A i \in AppointmentRecords(t, d) :
              appointments[i].status # "cancelled" => ~HitsAppointment(g, dur, i)}

(* C7: the result is, in strictly ascending order, exactly the grid starts
   that fit before close and conflict with no non-cancelled session of that
   trainer on that day. *)
C7_SlotsAreExactlyTheFreeGridStarts ==
    \A t \in Trainers, d \in QueryDates, dur \in CheckDurations :
        /\ IsAscending(get_available_slots(t, d, dur))
        /\ Range(get_available_slots(t, d, dur)) = ExpectedSessionSlots(t, d, dur)
        /\ IsAscending(appointment_get_available_slots(t, d, dur))
        /\ Range(appointment_get_available_slots(t, d, dur)) = ExpectedAppointmentSlots(t, d, dur)

\* what the recorded call returns on the present store
AvailAgain ==
    IF avail.variant = "session"
    THEN get_available_slots(avail.trainer_id, avail.date, avail.duration_minutes)
    ELSE appointment_get_available_slots(avail.trainer_id, avail.date, avail.duration_minutes)

(* C8: a call of get_available_slots (a step that records a call) changes no
   Client, Session or Appointment record, and the same call made again right
   after it returns the identical sequence. *)
C8_AvailabilityIsReadOnly ==
    [][ (avail' # avail /\ avail' # NoQuery) =>
            /\ sessions' = sessions
            /\ appointments' = appointments
            /\ clients' = clients
            /\ avail'.slots = AvailAgain'
      ]_vars

\* a call on a store with a busy session has returned some slots, not all
C8_Witness ==
    /\ avail.variant = "session"
    /\ avail.slots # << >>
    /\ avail.slots = AvailAgain
    /\ Range(avail.slots) # {g \in Grid(avail.date) :
                                g + avail.duration_minutes <= BusinessClose(avail.date)}

\* every grid start that, among the non-cancelled sessions, is hit by none is
\* returned, whatever cancelled sessions it hits
CancelledSessionsAreFree ==
    \A i \in 1..Len(sessions) :
        sessions[i].status = "cancelled" =>
            \A dur \in CheckDurations, g \in Grid(sessions[i].dateTime) :
                ( /\ g + dur <= BusinessClose(sessions[i].dateTime)
                  /\ HitsSession(g, dur, i)
                  /\ \A j \in SessionRecords(sessions[i].trainerId, sessions[i].dateTime) :
                        sessions[j].status # "cancelled" => ~HitsSession(g, dur, j) )
                => g \in Range(get_available_slots(sessions[i].trainerId,
                                                   sessions[i].dateTime, dur))

CancelledAppointmentsAreFree ==
    \A i \in 1..Len(appointments) :
        appointments[i].status = "cancelled" =>
            \A dur \in CheckDurations, g \in Grid(appointments[i].appointment_time) :
                ( /\ g + dur <= BusinessClose(appointments[i].appointment_time)
                  /\ HitsAppointment(g, dur, i)
                  /\ \A j \in AppointmentRecords(appointments[i].trainer_id,
                                                 appointments[i].appointment_time) :
                        appointments[j].status # "cancelled" => ~HitsAppointment(g, dur, j) )
                => g \in Range(appointment_get_available_slots(
                                   appointments[i].trainer_id,
                                   appointments[i].appointment_time, dur))

(* C9: a cancel leaves the session (appointment) with status cancelled, and a
   cancelled session is not busy: every grid start that conflicts with it and
   with no non-cancelled session of the trainer is returned. *)
C9_CancelFreesTheSlot ==
    /\ [](CancelledSessionsAreFree /\ CancelledAppointmentsAreFree)
    /\ [][ /\ \A id \in 1..Len(sessions) :
                  cancel_session(id) => sessions'[id].status = "cancelled"
           /\ \A id \in 1..Len(appointments) :
                  cancel_appointment(id) => appointments'[id].status = "cancelled"
         ]_vars

\* a call made after a cancel has returned the start of the cancelled
\* session, while another session of the trainer is still scheduled
C9_Witness ==
    /\ avail.variant = "session"
    /\ \E i \in 1..Len(sessions) :
          /\ sessions[i].status = "cancelled"
          /\ sessions[i].trainerId = avail.trainer_id
          /\ sessions[i].dateTime \in Range(avail.slots)
    /\ \E j \in 1..Len(sessions) :
          /\ sessions[j].status = "scheduled"
          /\ sessions[j].trainerId = avail.trainer_id
    /\ avail.slots = AvailAgain

(* C10: a reschedule onto an interval that overlaps another active session
   (appointment) of the same trainer is rejected: no step moves a record's
   start onto such an interval. *)
C10_RescheduleRevalidates ==
    [][ /\ \A id \in 1..Len(sessions) :
              ( /\ Len(sessions') = Len(sessions)
                /\ sessions'[id].dateTime # sessions[id].dateTime )
              => \A j \in 1..Len(sessions) :
                    ( /\ j # id
                      /\ sessions[j].trainerId = sessions[id].trainerId
                      /\ sessions[j].status \in ActiveStatuses )
                    => ~Overlap(sessions'[id].dateTime, sessions'[id].duration,
                                sessions[j].dateTime, sessions[j].duration)
        /\ \A id \in 1..Len(appointments) :
              ( /\ Len(appointments') = Len(appointments)
                /\ appointments'[id].appointment_time # appointments[id].appointment_time )
              => \A j \in 1..Len(appointments) :
                    ( /\ j # id
                      /\ appointments[j].trainer_id = appointments[id].trainer_id
                      /\ appointments[j].status \in ActiveStatuses )
                    => ~Overlap(appointments'[id].appointment_time,
                                appointments'[id].duration_minutes,
                                appointments[j].appointment_time,
                                appointments[j].duration_minutes)
      ]_vars

(* C11: after a reschedule the record has status scheduled and its new
   interval is busy: a call of get_available_slots for its trainer and the new
   date returns no slot that overlaps [new_time, new_time + duration), for the
   sessions and for the appointments. *)
C11_RescheduledIntervalIsBusy ==
    [][ /\ \A id \in 1..Len(sessions), at \in Instants :
              reschedule_session(id, at) =>
                  /\ sessions'[id].status = "scheduled"
                  /\ \A dur \in CheckDurations :
                        \A g \in Range(get_available_slots(sessions[id].trainerId, at, dur)') :
                            ~Overlap(g, dur, at, sessions[id].duration)
        /\ \A id \in 1..Len(appointments), at \in Instants :
              reschedule_appointment(id, at) =>
                  /\ appointments'[id].status = "scheduled"
                  /\ \A dur \in CheckDurations :
                        \A g \in Range(appointment_get_available_slots(
                                           appointments[id].trainer_id, at, dur)') :
                            ~Overlap(g, dur, at, appointments[id].duration_minutes)
      ]_vars

-----------------------------------------------------------------------------
(* Properties of the draft of a conversation *)

RequiredFields == Range(required_fields)

\* the draft of conversation c after the step
context_after(c) == context_of(c)'

\* the step has started a booking attempt for conversation c: date and time
\* were resolved, and the attempt either stopped there or went on to the store
BookingAttempted(c) == pc'[c] # "idle" \/ reply' = "alternate_format"

(* C12: every utterance of a conversation, whatever its intent, puts the name,
   phone, first date and first time it carries into the draft where the draft
   lacks them; the turn that supplies the last missing field triggers the
   booking attempt; and a draft with date 'tomorrow' and time '2pm' resolves
   to 14:00 of the next calendar day. *)
C12_EveryUtteranceIsMerged ==
    [][ \A c \in ConvIds, u \in DraftUtterances :
            process_scheduling_request(c, u) =>
                /\ \A f \in extracted_fields(u) \ DOMAIN context_of(c) :
                      /\ f \in DOMAIN context_after(c)
                      /\ context_after(c)[f] = extracted_value(u, f)
                /\ RequiredFields \subseteq (DOMAIN context_of(c)) \cup extracted_fields(u)
                      => BookingAttempted(c)
                /\ ( /\ RequiredFields \subseteq DOMAIN context_after(c)
                     /\ context_after(c)["date"] = "tomorrow"
                     /\ context_after(c)["time"] = "2pm" )
                      => session_datetime(context_after(c)) =
                             start_of_day(now) + MinutesPerDay + 14 * MinutesPerHour
      ]_vars

\* the step is the success of a booking of conversation c: the context is cleared
CommitClears(c) ==
    /\ pc[c] = "update_remaining"
    /\ reply' = "scheduled"
    /\ context_after(c) = << >>

\* the step handles a schedule utterance of conversation c that carries field f
ScheduleUtteranceCarries(c, f) ==
    \E u \in DraftUtterances :
        /\ u.intent = "schedule"
        /\ f \in extracted_fields(u)
        /\ process_scheduling_request(c, u)
        /\ extracted_value(u, f) = context_after(c)[f]

(* C13 as stated: once a field of a draft is set, no step changes its value,
   except the clearing of the context by a successful commit. *)
C13_DraftFieldsAreNeverOverwritten ==
    [][ \A c \in ConvIds : \A f \in DOMAIN context_of(c) :
            \/ CommitClears(c)
            \/ /\ f \in DOMAIN context_after(c)
               /\ context_after(c)[f] = context_of(c)[f]
      ]_vars

(* C13 amended: a field of a draft keeps its value until a schedule utterance
   of that conversation carries a new extraction of the same kind, which
   replaces the value, or until a successful commit clears the context. *)
C13_DraftFieldsFollowTheLastExtraction ==
    [][ \A c \in ConvIds :
          /\ \A u \in DraftUtterances :
                (u.intent = "schedule" /\ process_scheduling_request(c, u)) =>
                    \A f \in extracted_fields(u) :
                        /\ f \in DOMAIN context_after(c)
                        /\ context_after(c)[f] = extracted_value(u, f)
          /\ \A f \in DOMAIN context_of(c) :
                \/ CommitClears(c)
                \/ /\ f \in DOMAIN context_after(c)
                   /\ \/ context_after(c)[f] = context_of(c)[f]
                      \/ ScheduleUtteranceCarries(c, f)
      ]_vars

\* the last reply asked for another format, so the draft was complete and did
\* not resolve, and the draft is kept until a commit; now an attempt of the same
\* call is past the resolution: the date or time that did not parse was replaced
C13_Witness ==
    /\ reply = "alternate_format"
    /\ pc[DraftConv] = "check_remaining"
    /\ context_of(DraftConv)["date"] = "tomorrow"
    /\ context_of(DraftConv)["time"] = "2pm"

\* the fixed order of the required fields
FieldRank(f) ==
    CASE f = "name" -> 1 [] f = "phone" -> 2 [] f = "date" -> 3 [] f = "time" -> 4

FirstMissing(context) ==
    CHOOSE f \in RequiredFields \ DOMAIN context :
        \A g \in RequiredFields \ DOMAIN context : FieldRank(f) <= FieldRank(g)

PromptFor(f) ==
    CASE f = "name"  -> "ask_name"
      [] f = "phone" -> "ask_phone"
      [] f = "date"  -> "ask_date"
      [] f = "time"  -> "ask_time"

(* C14: when the draft lacks a required field after the merge of a schedule
   utterance, the reply is the prompt for the first missing field in the order
   name, phone, date, time, and the turn ends there: no client is looked up or
   created, no session is created, no balance changes. *)
C14_MissingFieldIsPromptedFor ==
    [][ \A c \in ConvIds, u \in DraftUtterances :
            ( /\ u.intent = "schedule"
              /\ process_scheduling_request(c, u)
              /\ ~(RequiredFields \subseteq DOMAIN context_after(c)) )
            => /\ reply' = PromptFor(FirstMissing(context_after(c)))
               /\ pc'[c] = "idle"
               /\ local' = local
               /\ clients' = clients
               /\ sessions' = sessions
               /\ appointments' = appointments
      ]_vars

\* the call was asked for the date while its draft already holds the time
C14_Witness ==
    /\ reply = "ask_date"
    /\ DOMAIN context_of(DraftConv) = {"name", "phone", "time"}
    /\ pc[DraftConv] = "idle"

(* C15: the step that ends a successful booking leaves the draft of its
   conversation without any of the four fields, and the schedule utterance
   that follows it in the same conversation starts a draft that holds the
   fields of that utterance only. *)
C15_CommitClearsTheDraft ==
    [][ /\ \A c \in ConvIds :
              (pc[c] = "update_remaining" /\ pc'[c] = "idle") =>
                  /\ reply' = "scheduled"
                  /\ (DOMAIN context_after(c)) \cap RequiredFields = {}
        /\ \A u \in DraftUtterances :
              ( /\ reply = "scheduled"
                /\ u.intent = "schedule"
                /\ process_scheduling_request(DraftConv, u) )
              => /\ DOMAIN context_after(DraftConv) = extracted_fields(u)
                 /\ reply' = PromptFor(FirstMissing(context_after(DraftConv)))
      ]_vars

\* after a booking of the call was committed, an utterance that gives a time
\* was answered by the prompt for the name: the draft holds the time only
C15_Witness ==
    /\ Len(sessions) >= 1
    /\ reply = "ask_name"
    /\ DOMAIN context_of(DraftConv) = {"time"}
    /\ pc[DraftConv] = "idle"

\* the balance the store holds for the client the attempt of c resolved to
BalanceOfAttempt(c) ==
    IF local[c].client_id \in 1..Len(clients)
    THEN clients[local[c].client_id].sessionsRemaining
    ELSE 0

(* C16: when the attempt of a complete draft reaches the check of the balance
   and the client's sessionsRemaining is <= 0, the attempt ends with the
   package-exhausted reply: no session is created, no balance changes, and the
   draft keeps its four fields with their values. *)
C16_ExhaustedPackageKeepsTheDraft ==
    [][ \A c \in ConvIds :
            ( /\ pc[c] = "check_remaining"
              /\ pc'[c] # "check_remaining"
              /\ BalanceOfAttempt(c) <= 0 )
            => /\ reply' = "no_sessions_remaining"
               /\ pc'[c] = "idle"
               /\ sessions' = sessions
               /\ clients' = clients
               /\ RequiredFields \subseteq DOMAIN context_of(c)
               /\ context_after(c) = context_of(c)
      ]_vars

\* the call was refused for a client the attempt itself created: the client
\* exists with balance 0, no session does, and the draft is still complete
C16_Witness ==
    /\ reply = "no_sessions_remaining"
    /\ pc[DraftConv] = "idle"
    /\ RequiredFields \subseteq DOMAIN context_of(DraftConv)
    /\ context_of(DraftConv)["phone"] = UNKNOWN_PHONE
    /\ Len(clients) = 2
    /\ clients[2].sessionsRemaining = 0
    /\ sessions = << >>

\* the draft of c after the step holds what the utterance carries and, for the
\* other fields, what it held before
DraftIsTheMergeOf(c, u) ==
    /\ DOMAIN context_after(c) = (DOMAIN context_of(c)) \cup extracted_fields(u)
    /\ \A f \in DOMAIN context_after(c) :
          context_after(c)[f] = IF f \in extracted_fields(u)
                                THEN extracted_value(u, f)
                                ELSE context_of(c)[f]

(* C17: when the draft is complete after the merge and its date or time does
   not parse, the reply is the alternate-format prompt, the draft stays as the
   merge left it, and no client or session record is created or modified. *)
C17_ParseFailureKeepsTheDraft ==
    [][ \A c \in ConvIds, u \in DraftUtterances :
            ( /\ u.intent = "schedule"
              /\ process_scheduling_request(c, u)
              /\ RequiredFields \subseteq (DOMAIN context_of(c)) \cup extracted_fields(u)
              /\ session_datetime(merge_context(context_of(c), u)) = ParseError )
            => /\ reply' = "alternate_format"
               /\ DraftIsTheMergeOf(c, u)
               /\ pc'[c] = "idle"
               /\ clients' = clients
               /\ sessions' = sessions
               /\ appointments' = appointments
      ]_vars

\* the call gave 'next week' as the date of a complete draft for an unknown
\* phone and was asked for another format: no client was created for the phone
C17_Witness ==
    /\ reply = "alternate_format"
    /\ pc[DraftConv] = "idle"
    /\ RequiredFields \subseteq DOMAIN context_of(DraftConv)
    /\ context_of(DraftConv)["date"] = "next week"
    /\ context_of(DraftConv)["phone"] = UNKNOWN_PHONE
    /\ Len(clients) = 1
    /\ sessions = << >>

(* C18: the handling of an utterance whose intent is reschedule, cancel,
   check_availability, check_remaining or general ends within the turn and
   changes no draft of any conversation and no client, session or appointment
   record. *)
C18_OtherIntentsAreReadOnly ==
    [][ \A c \in ConvIds, u \in DraftUtterances :
            (u.intent # "schedule" /\ process_scheduling_request(c, u)) =>
                /\ conversation_context' = conversation_context
                /\ pc' = pc
                /\ clients' = clients
                /\ sessions' = sessions
                /\ appointments' = appointments
      ]_vars

\* the call asked to change to 2pm while its draft lacks the time only: the
\* time of the utterance did not enter the draft
C18_Witness ==
    /\ reply = "reschedule_prompt"
    /\ DOMAIN context_of(DraftConv) = {"name", "phone", "date"}
    /\ pc[DraftConv] = "idle"

-----------------------------------------------------------------------------
(* Properties of the dialogue of several calls *)

\* the step is a step of the handling of a turn of conversation c
TurnStepOf(c) ==
    \/ \E u \in CallUtterances : process_scheduling_request(c, u)
    \/ handle_schedule_create_client(c)
    \/ handle_schedule_check_remaining(c)
    \/ handle_schedule_create_session(c)
    \/ handle_schedule_update_remaining(c)

(* C19: under any interleaving of the turns of several conversations, a step
   of the handling of a turn of conversation A leaves the draft of every other
   conversation B as it was. *)
C19_DraftsAreIsolated ==
    [][ \A a \in ConvIds :
            TurnStepOf(a) =>
                \A b \in ConvIds \ {a} :
                    /\ (b \in DOMAIN conversation_context') = (b \in DOMAIN conversation_context)
                    /\ context_after(b) = context_of(b)
      ]_vars

\* both calls hold a complete draft, each with its own phone and time, after
\* a booking of one of them has been committed
C19_Witness ==
    /\ RequiredFields \subseteq DOMAIN context_of("call1")
    /\ RequiredFields \subseteq DOMAIN context_of("call2")
    /\ context_of("call1")["phone"] = REGISTERED_PHONE
    /\ context_of("call2")["phone"] = UNKNOWN_PHONE
    /\ context_of("call1")["time"] # context_of("call2")["time"]
    /\ Len(sessions) >= 1
    /\ \A c \in ConvIds : pc[c] = "idle"

(* C20: at most one client record exists for each phone number, in every
   state the booking attempts of the calls can reach. *)
C20_PhoneIsUniqueKey ==
    \A i, j \in 1..Len(clients) :
        clients[i].phone = clients[j].phone => i = j

(* C21: every session the dialogue creates starts at an instant that
   get_available_slots returns for its trainer, date and duration on the store
   as it is when the session is created: inside business hours and free of
   conflict with the trainer's busy sessions. *)
C21_CommittedSessionsWereAvailable ==
    [][ Len(sessions') > Len(sessions) =>
            LET new == sessions'[Len(sessions')] IN
            new.dateTime \in Range(get_available_slots(new.trainerId, new.dateTime,
                                                       new.duration))
      ]_vars

-----------------------------------------------------------------------------
\* the lead times with which the reminder queries are checked
LeadHours == {1, ReminderLead, 48}

\* what the reminder query is to return: scheduled, not yet reminded, and due
\* within the lead
NeedsReminder(status, reminder_sent, date_time, lead_hours) ==
    /\ status = "scheduled"
    /\ reminder_sent = FALSE
    /\ date_time <= utcnow + lead_hours * MinutesPerHour

SessionQueryIsExact(lead_hours) ==
    Range(get_sessions_needing_reminders(lead_hours))
        = { id \in 1..Len(sessions) :
              NeedsReminder(sessions[id].status, sessions[id].autoReminderSent,
                            sessions[id].dateTime, lead_hours) }

AppointmentQueryIsExact(lead_hours) ==
    Range(get_appointments_needing_reminders(lead_hours))
        = { id \in 1..Len(appointments) :
              NeedsReminder(appointments[id].status, appointments[id].reminder_sent,
                            appointments[id].appointment_time, lead_hours) }

(* C22: in every reachable store and for every lead time, the reminder query of
   both variants returns exactly the records with status scheduled, reminder
   flag false and start instant at most now + lead: with a 24 hour lead a
   record at now + 23h is returned, one at now + 30h and one already flagged
   are not. *)
C22_ReminderQueryIsExact ==
    \A lead_hours \in LeadHours :
        SessionQueryIsExact(lead_hours) /\ AppointmentQueryIsExact(lead_hours)

\* the session variant alone
SessionReminderQueryIsExact == \A lead_hours \in LeadHours : SessionQueryIsExact(lead_hours)

-----------------------------------------------------------------------------
\* the reminder flag of the record a sweep of that variant works on
reminder_flag_of(variant, id) ==
    IF variant = "session" THEN sessions[id].autoReminderSent
    ELSE appointments[id].reminder_sent

\* the record sweep s is dispatching
current_item(s) == sweep[s].queue[sweep[s].i]

\* this step is the return of the dispatch sweep s is making
DispatchReturns(s) == sweep[s].pc \in {"call", "mark"} /\ sweep'[s].pc = "sleep"

(* C23: when a dispatch of a sweep returns, the reminder flag of the dispatched
   record is true if the dispatch reports success, and is what it was before
   the step, false, if it reports failure. *)
C23_FlagFollowsTheDispatch ==
    [][ \A s \in Sweepers :
          DispatchReturns(s) =>
              IF sweep'[s].success
              THEN reminder_flag_of(sweep[s].variant, current_item(s))' = TRUE
              ELSE /\ reminder_flag_of(sweep[s].variant, current_item(s))' = FALSE
                   /\ reminder_flag_of(sweep[s].variant, current_item(s)) = FALSE
      ]_vars

-----------------------------------------------------------------------------
(* C24: the reminder flag is one-way: no step of the store (booking, status
   update, cancellation, rescheduling, marking again) takes the flag of a
   session or of an appointment from true to false. *)
C24_ReminderFlagIsOneWay ==
    [][ /\ \A id \in 1..Len(sessions) :
              sessions[id].autoReminderSent = TRUE
                  => id \in 1..Len(sessions') /\ sessions'[id].autoReminderSent = TRUE
        /\ \A id \in 1..Len(appointments) :
              appointments[id].reminder_sent = TRUE
                  => id \in 1..Len(appointments') /\ appointments'[id].reminder_sent = TRUE
      ]_vars

\* a session that was flagged has been rescheduled into the lead and another
\* flagged one is cancelled
C24_Witness ==
    /\ Len(sessions) = 2
    /\ sessions[1].autoReminderSent = TRUE /\ sessions[1].status = "cancelled"
    /\ sessions[2].autoReminderSent = TRUE /\ sessions[2].status = "scheduled"
    /\ sessions[2].dateTime = now + 23 * MinutesPerHour

-----------------------------------------------------------------------------
\* session id is still owed a reminder: scheduled, not flagged, and starting
\* no later than the end of the lead, however long ago
StillOwed(id) ==
    /\ sessions[id].status = "scheduled"
    /\ sessions[id].autoReminderSent = FALSE
    /\ sessions[id].dateTime <= utcnow + ReminderLead * MinutesPerHour

(* C25: every sweep lists, when it fetches its queue, every session that is
   scheduled, not flagged and due, whether its start lies in the past and
   whether its dispatch failed in earlier sweeps: such a session is returned
   again by every later sweep until its flag is set or its status changes. *)
C25_OwedSessionsAreListedAgain ==
    [][ \A s \in Sweepers :
          session_sweep_fetch(s) =>
              \A id \in 1..Len(sessions) :
                  StillOwed(id) => id \in Range(sweep'[s].queue)
      ]_vars

\* a sweep has just fetched a queue that holds a session whose start is past
\* and whose dispatch failed in an earlier sweep
C25_Witness ==
    /\ sweep[TheSweeper].pc = "call"
    /\ sweep[TheSweeper].i = 1
    /\ \E id \in Range(sweep[TheSweeper].queue) :
          /\ id \in calls.failed
          /\ sessions[id].dateTime < utcnow
          /\ StillOwed(id)

-----------------------------------------------------------------------------
\* loop s has returned its statistics
Returned(s) == sweep[s].pc = "idle" /\ sweep[s].variant # "none"

\* loop s has passed every position of its list once, and has counted every
\* item as successful or as failed
CountsEveryItem(s) ==
    /\ sweep[s].pc = "call" =>
          sweep[s].i \in 1..Len(sweep[s].queue)
    /\ Returned(s) =>
          /\ sweep[s].i = Len(sweep[s].queue) + 1
          /\ sweep[s].delays = Len(sweep[s].queue)
          /\ sweep[s].successful + sweep[s].failed = Len(sweep[s].queue)

(* C26: a batch loop (reminder sweep of sessions or appointments, bulk
   follow-up calls, bulk scheduling calls) attempts every item of its list
   once, whatever the outcome of the earlier items, and when it returns the
   successful and the failed items add up to the length of the list. *)
C26_BatchLoopCountsEveryItem == \A s \in Sweepers : CountsEveryItem(s)

\* the loops other than the bulk scheduling calls
CountingLoopsCountEveryItem ==
    \A s \in Sweepers : sweep[s].variant # "scheduling" => CountsEveryItem(s)

-----------------------------------------------------------------------------
(* C27: in a reminder sweep a dispatch starts only when every attempt made so
   far in the sweep, successful or failed, has been followed by its delay: the
   delays that have run are as many as the attempts counted, one per position
   of the list already passed. *)
C27_DelayFollowsEveryAttempt ==
    \A s \in Sweepers :
        sweep[s].pc \in {"call", "mark"} =>
            /\ sweep[s].delays = sweep[s].successful + sweep[s].failed
            /\ sweep[s].delays = sweep[s].i - 1

\* the second dispatch of a sweep is about to start, after a first one that
\* failed and the delay that followed it
C27_Witness ==
    /\ sweep[TheSweeper].pc = "call"
    /\ sweep[TheSweeper].i = 2
    /\ sweep[TheSweeper].failed = 1
    /\ sweep[TheSweeper].delays = 1

-----------------------------------------------------------------------------
\* the keyword groups of an agent with their intents, in the order
\* schedule, reschedule, cancel, check_availability, check_remaining; the
\* appointment agent has no keyword for the last one
KeywordGroups(agent) ==
    << [intent |-> "schedule",
        words |-> IF agent = "session"
                  THEN {"schedule", "book", "session", "training"}
                  ELSE {"schedule", "book", "appointment", "session"}],
       [intent |-> "reschedule", words |-> {"reschedule", "change", "move"}],
       [intent |-> "cancel", words |-> {"cancel", "remove"}],
       [intent |-> "check_availability", words |-> {"available", "availability", "free"}],
       [intent |-> "check_remaining",
        words |-> IF agent = "session"
                  THEN {"remaining", "sessions left", "how many"}
                  ELSE {}] >>

\* the word occurs in the lower-cased text
Occurs(word, text) == \E k \in DOMAIN text : word \in KeywordsIn(lower(text[k]))

MatchingGroups(agent, text) ==
    { g \in DOMAIN KeywordGroups(agent) :
        \E word \in KeywordGroups(agent)[g].words : Occurs(word, text) }

\* the intent of the first group that has a keyword in the text
FirstMatch(agent, text) ==
    IF MatchingGroups(agent, text) = {} THEN "general"
    ELSE LET first == CHOOSE g \in MatchingGroups(agent, text) :
                         \A h \in MatchingGroups(agent, text) : g <= h
         IN  KeywordGroups(agent)[first].intent

(* C28: for every text, the intent an extractor returns is the intent of the
   first keyword group, in the order schedule, reschedule, cancel,
   check_availability, check_remaining, that has a keyword occurring in the
   lower-cased text, and general when no group has one. *)
C28_IntentIsTheFirstMatch ==
    extraction # NoExtraction =>
        extraction.result.intent = FirstMatch(extraction.agent, extraction.text)

\* a text with a cancel keyword followed by a schedule keyword, both in
\* capitals, has resolved to schedule
C28_Witness ==
    /\ extraction # NoExtraction
    /\ extraction.agent = "session"
    /\ extraction.text = <<"CANCEL", "Book">>
    /\ extraction.result.intent = "schedule"

-----------------------------------------------------------------------------
\* the fragments of the lower-cased text that some pattern of the list
\* matches, in the order in which they occur in the text
InTextualOrder(patterns, text) ==
    SelectSeq(message_lower(text),
              LAMBDA fragment : \E k \in DOMAIN patterns : fragment \in patterns[k])

(* C29: the dates and the times an extractor returns are the date and time
   fragments of the text in the order in which they occur in it, and the date
   and the time the session dialogue merges into a draft are the first ones
   in that order. *)
C29_FragmentsInTextualOrder ==
    extraction # NoExtraction =>
        LET dates == InTextualOrder(date_patterns, extraction.text)
            times == InTextualOrder(time_patterns, extraction.text)
            draft == merge_context(<< >>, extraction.result)
        IN  /\ extraction.result.dates = dates
            /\ extraction.result.times = times
            /\ dates # << >> /\ extraction.agent = "session" => draft["date"] = dates[1]
            /\ times # << >> /\ extraction.agent = "session" => draft["time"] = times[1]

-----------------------------------------------------------------------------
(* C30: a health check made while the persistence collaborator is out of reach
   is answered, and its answer reports the system as unhealthy, not as
   healthy. *)
C30_UnreachableStoreIsReportedUnhealthy ==
    [][ HealthCheck /\ ~service.reachable =>
            /\ health' # NoHealth
            /\ health'.status = "unhealthy"
      ]_vars

-----------------------------------------------------------------------------
(* C31 *)

\* the record of the item, or the record of its client, does not exist
RecordMissing(variant, id) ==
    IF variant = "session"
    THEN \/ id \notin 1..Len(sessions)
         \/ sessions[id].clientId \notin 1..Len(clients)
    ELSE \/ id \notin 1..Len(appointments)
         \/ appointments[id].client_id \notin 1..Len(clients)

\* the step places no call and leaves every record, so every flag, as it was
NothingPlacedNothingFlagged ==
    /\ calls'.placed = calls.placed
    /\ sessions' = sessions
    /\ appointments' = appointments

\* the step is the dispatch of sweep s for its current item
DispatchStep(s) == sweep[s].pc = "call" /\ sweep'[s] # sweep[s]

\* the step is the end of an attempt of a reminder sweep s
AttemptEnds(s) ==
    /\ sweep[s].pc = "sleep"
    /\ sweep[s].variant \in {"session", "appointment"}
    /\ sweep'[s] # sweep[s]

\* C31: a reminder dispatch for an id whose session (appointment) record or
\* client record is missing returns failure, places no call and changes no
\* reminder flag; the sweep counts the failure and goes on to the next item of
\* its list, or returns after the last one.
C31_MissingRecordFailsTheDispatch ==
    [][ /\ \A s \in Sweepers :
             DispatchStep(s) /\ RecordMissing(sweep[s].variant, current_item(s))
             => /\ NothingPlacedNothingFlagged
                /\ current_item(s) \in calls'.failed
                /\ sweep'[s].failed = sweep[s].failed + 1
                /\ sweep'[s].successful = sweep[s].successful
                /\ sweep'[s].pc = "sleep"
        /\ \A s \in Sweepers :
             AttemptEnds(s)
             => /\ sweep'[s].queue = sweep[s].queue
                /\ sweep'[s].i = sweep[s].i + 1
                /\ sweep'[s].pc = IF sweep[s].i < Len(sweep[s].queue)
                                  THEN "call" ELSE "idle"
        /\ \A id \in 1..MaxRecords + 1 :
             trigger_reminder_call(id) /\ RecordMissing("appointment", id)
             => /\ NothingPlacedNothingFlagged
                /\ id \in calls'.failed
      ]_vars

\* a sweep is at the second item of its list after the dispatch for the first,
\* whose client has no record, failed: no call was placed for it and its flag
\* is unset
C31_Witness ==
    \E s \in Sweepers :
        /\ sweep[s].variant = "session"
        /\ sweep[s].pc = "call"
        /\ sweep[s].i = 2
        /\ sweep[s].failed = 1
        /\ RecordMissing("session", sweep[s].queue[1])
        /\ sweep[s].queue[1] \in calls.failed
        /\ sweep[s].queue[1] \notin calls.placed
        /\ ~sessions[sweep[s].queue[1]].autoReminderSent

-----------------------------------------------------------------------------
(* C33 *)

\* a call was placed for the session and no dispatch for it is still between
\* the call and its return: every call placed for it has been reported
\* successful
ReportedSuccessful(id) ==
    /\ id \in calls.placed
    /\ ~\E s \in Sweepers : sweep[s].pc = "mark" /\ current_item(s) = id

\* the step is a dispatch of sweep s that places the call
CallPlaced(s) == DispatchStep(s) /\ sweep'[s].pc = "mark"

\* C33: a session receives at most one successful reminder call, also when two
\* sweeps overlap: no call is placed for a session for which a call has been
\* reported successful.
C33_AtMostOneSuccessfulCall ==
    [][ \A s \in Sweepers :
            sweep[s].pc = "call" /\ ReportedSuccessful(current_item(s))
            => ~CallPlaced(s) ]_vars

-----------------------------------------------------------------------------
(* C34 *)

\* C34: a reminder call is placed only for a session whose status is scheduled
\* at the moment the call is placed, so a session cancelled between the fetch
\* of the list and its turn in the loop is not called.
C34_OnlyScheduledSessionsAreCalled ==
    [][ \A s \in Sweepers :
            CallPlaced(s) /\ sweep[s].variant = "session"
            => sessions[current_item(s)].status = "scheduled" ]_vars

-----------------------------------------------------------------------------
(* C35 *)

\* the client record was created by the dialogue: it is not the one that was
\* registered before the first call
CreatedByTheDialogue(k) == k \in 2..Len(clients)

\* C35: a client created by the create-if-absent step of the booking dialogue
\* has sessionsRemaining 0, and the booking attempt for such a client ends at
\* the check of the balance with the package-exhausted reply: the client record
\* stays, no session is created and the draft is kept complete.
C35_NewClientCannotBook ==
    [][ \A c \in ConvIds :
          /\ ( pc[c] = "create_client" /\ pc'[c] = "check_remaining" )
             => /\ Len(clients') = Len(clients) + 1
                /\ local'[c].client_id = Len(clients')
                /\ clients'[Len(clients')].phone = context_of(c)["phone"]
                /\ clients'[Len(clients')].sessionsRemaining = 0
                /\ sessions' = sessions
          /\ ( /\ pc[c] = "check_remaining"
               /\ pc'[c] # "check_remaining"
               /\ CreatedByTheDialogue(local[c].client_id) )
             => /\ reply' = "no_sessions_remaining"
                /\ pc'[c] = "idle"
                /\ sessions' = sessions
                /\ clients' = clients
                /\ RequiredFields \subseteq DOMAIN context_of(c)
                /\ context_after(c) = context_of(c)
      ]_vars

\* a call with an unrecognized phone has ended with the package-exhausted
\* reply: the record of the new client exists with balance 0, no session names
\* it and the draft of the call is still complete
C35_Witness ==
    \E c \in ConvIds :
        /\ reply = "no_sessions_remaining"
        /\ pc[c] = "idle"
        /\ RequiredFields \subseteq DOMAIN context_of(c)
        /\ get_client_by_phone(context_of(c)["phone"]) # {}
        /\ \A k \in get_client_by_phone(context_of(c)["phone"]) :
              /\ CreatedByTheDialogue(k)
              /\ clients[k].sessionsRemaining = 0
              /\ SessionsOf(k) = {}

-----------------------------------------------------------------------------
(* C36 *)

\* some keyword of a group before group g occurs in the text
EarlierGroupOccurs(agent, g, text) == \E h \in MatchingGroups(agent, text) : h < g

\* C36: a text containing 'reschedule' or 'sessions left' resolves to schedule,
\* because 'schedule' and 'session' are found inside them; reschedule is
\* returned only for a text in which 'change' or 'move' occurs and no schedule
\* keyword does, and check_remaining only for a text in which 'remaining' or
\* 'how many' occurs and no keyword of an earlier group does.
C36_ContainedKeywordsDecide ==
    extraction # NoExtraction =>
        LET text == extraction.text
            agent == extraction.agent
            intent == extraction.result.intent
        IN  /\ Occurs("reschedule", text) \/ Occurs("sessions left", text)
               => intent = "schedule"
            /\ intent = "reschedule"
               => /\ Occurs("change", text) \/ Occurs("move", text)
                  /\ ~EarlierGroupOccurs(agent, 2, text)
            /\ intent = "check_remaining"
               => /\ Occurs("remaining", text) \/ Occurs("how many", text)
                  /\ ~EarlierGroupOccurs(agent, 5, text)

\* the session extractor has returned schedule for a text whose only keyword
\* is 'sessions left'
C36_Witness ==
    /\ extraction # NoExtraction
    /\ extraction.agent = "session"
    /\ extraction.text = <<"sessions left", "hello">>
    /\ extraction.result.intent = "schedule"

-----------------------------------------------------------------------------
(* C37 *)

\* sweep s is in its loop
InLoop(s) == sweep[s].pc \in {"call", "mark", "sleep"}

\* the step of sweep s inside its loop keeps the list and either stays at the
\* item (the call was placed, the flag is to be written; the attempt is over,
\* the delay follows) or passes to the next one
VisitsInOrder(s) ==
    InLoop(s) /\ sweep'[s] # sweep[s]
    => /\ sweep'[s].queue = sweep[s].queue
       /\ sweep'[s].total = sweep[s].total
       /\ IF sweep[s].pc = "sleep"
          THEN /\ sweep'[s].i = sweep[s].i + 1
               /\ sweep'[s].pc = IF sweep[s].i < Len(sweep[s].queue)
                                 THEN "call" ELSE "idle"
          ELSE /\ sweep'[s].i = sweep[s].i
               /\ sweep'[s].pc \in {"mark", "sleep"}
               /\ sweep'[s].pc # sweep[s].pc

\* the sweep has returned after one attempt for every item of its list
ReturnedAfterEveryItem(s) ==
    /\ Returned(s)
    /\ sweep[s].i = Len(sweep[s].queue) + 1
    /\ sweep[s].successful + sweep[s].failed = sweep[s].total
    /\ sweep[s].total = Len(sweep[s].queue)

\* C37: a reminder sweep terminates: given that each call and each delay
\* returns, the sweep goes once through the list it fetched at the start, one
\* item after the other, and then returns its statistics, whatever the
\* outcomes of the dispatches and whatever sessions are booked meanwhile.
C37_SweepTerminates ==
    /\ [][ VisitsInOrder(TheSweeper) ]_vars
    /\ [](Returned(TheSweeper) => ReturnedAfterEveryItem(TheSweeper))
    /\ (InLoop(TheSweeper) ~> ReturnedAfterEveryItem(TheSweeper))

\* a sweep has returned after the one session of its list, whose dispatch
\* failed; a session due within the lead was booked after the fetch and is not
\* in the list
C37_Witness ==
    /\ ReturnedAfterEveryItem(TheSweeper)
    /\ sweep[TheSweeper].variant = "session"
    /\ Len(sweep[TheSweeper].queue) = 1
    /\ sweep[TheSweeper].failed = 1
    /\ Len(sessions) = 2
    /\ sessions[2].dateTime <= utcnow + ReminderLead * MinutesPerHour

-----------------------------------------------------------------------------
(* C32 *)

\* the record is due a reminder: what both queries select
Owed(variant, id) ==
    IF variant = "session"
    THEN /\ id \in 1..Len(sessions)
         /\ id \in Range(get_sessions_needing_reminders(ReminderLead))
    ELSE /\ id \in 1..Len(appointments)
         /\ id \in Range(get_appointments_needing_reminders(ReminderLead))

Flagged(variant, id) ==
    IF variant = "session"
    THEN id \in 1..Len(sessions) /\ sessions[id].autoReminderSent
    ELSE id \in 1..Len(appointments) /\ appointments[id].reminder_sent

\* the reminder call for the record is initiated: the collaborator succeeds
CallSucceeds(variant, id) ==
    /\ sweep[TheSweeper].variant = variant
    /\ sweep[TheSweeper].pc = "call"
    /\ current_item(TheSweeper) = id
    /\ CallSession \/ CallAppointment
    /\ sweep'[TheSweeper].pc = "mark"

\* the update of the flag of the record succeeds
FlagIsWritten(variant, id) ==
    /\ ~Flagged(variant, id)
    /\ MarkSession \/ MarkAppointment
    /\ Flagged(variant, id)'

\* the trigger starts a sweep whenever none is running, and the call to the
\* record succeeds in the end when it is tried again and again
SweepsWithSuccessfulCalls(variant, id) ==
    /\ WF_vars(FetchSessions)
    /\ WF_vars(FetchAppointments)
    /\ SF_vars(CallSucceeds(variant, id))

ReminderVariants == {"session", "appointment"}

\* C32: when sweeps keep being triggered and the reminder call to a record
\* that is due a reminder succeeds, the record is eventually flagged and from
\* then on no longer listed by the queries.
C32_SuccessfulCallsLeadToTheFlag ==
    \A variant \in ReminderVariants : \A id \in 1..MaxRecords :
        SweepsWithSuccessfulCalls(variant, id)
        => (Owed(variant, id) ~> [](Flagged(variant, id) /\ ~Owed(variant, id)))

\* C32, amended: the same, provided the update of the flag in the store, tried
\* again and again, succeeds in the end.
C32_SuccessfulCallsAndUpdatesLeadToTheFlag ==
    \A variant \in ReminderVariants : \A id \in 1..MaxRecords :
        ( /\ SweepsWithSuccessfulCalls(variant, id)
          /\ SF_vars(FlagIsWritten(variant, id)) )
        => (Owed(variant, id) ~> [](Flagged(variant, id) /\ ~Owed(variant, id)))

\* a sweep has called the client of a session that was due a reminder, the
\* flag of the session is written and the query lists it no more
C32_Witness ==
    /\ sweep[TheSweeper].variant = "session"
    /\ sweep[TheSweeper].pc = "sleep"
    /\ sweep[TheSweeper].success
    /\ current_item(TheSweeper) \in calls.placed
    /\ Flagged("session", current_item(TheSweeper))
    /\ ~Owed("session", current_item(TheSweeper))
    /\ sessions[current_item(TheSweeper)].status = "scheduled"

=============================================================================
